---- MODULE Spec2Model ----
(***************************************************************************)
(* ReportBench: a model of the shared utility library, the URL cache, the  *)
(* inference harness, the web-search verifier, the citation audit          *)
(* orchestrator and the metrics calculator.                                *)
(*                                                                         *)
(* Text is a sequence of one-character strings.  Every subsystem has its   *)
(* own specification (SpecSplit, SpecCache, ...) over its own variables;   *)
(* the variables of the other subsystems stay at their idle values.        *)
(***************************************************************************)
EXTENDS Integers, Sequences, FiniteSets, TLC

VARIABLES
    \* utils.split_text_by_headers
    text, max_size, split_pc, split_result,
    \* cache_utils: the in-memory table and the last two calls on it
    url_cache, cache_prev, cache_last,
    \* batch_infer.infer_single_with_retry: the retry loop, the error of the
    \* last invocation and whether every error so far was not rate-limit
    retry_pc, max_retries, retry_attempt, invocations, last_error,
    last_is_rate_limit, only_other_errors, retry_result,
    \* batch_infer.batch_infer_parallel: the arguments, the output file (and
    \* what it held when the run began), the tasks and their futures
    harness_pc, start_idx, empty_prompts, available_models, file_exists,
    output_file, existing_file, tasks, futures,
    \* verify_no_citations_web: the rows, the size of the pool, the futures
    \* collected, the vote records and the final records
    vote_pc, df_no_citations, max_workers, vote_done, verification_results,
    final_results,
    \* statement_evaluator.process_single_json: the step and the number of
    \* the run, the files of the report directory (and what they were when
    \* the run began), the fetched source texts, the frames in memory, and
    \* the functions invoked and steps reached in this run
    audit_pc, audit_runs, include_no_citations, files, files_at_start,
    raw_texts, df_citations, audit_no_citations, df_match, invoked, reached,
    submitted,
    \* metrics_calculator.calculate_file_metrics: the report directory and
    \* the record returned
    metrics_pc, results_dir, metrics,
    \* utils.WebLLMClient.generate: the loop, retry_count, the posts made,
    \* what the last post ended with and the last wait
    web_pc, web_retry_count, web_posts, web_outcome, web_wait_time,
    web_rate_limit_retries, web_error_retries,
    \* gemini_processor.parse_gemini_article: the markdown text, the
    \* superscripts with their matches, the link of the index, the search
    \* position and the items scanned, the sorted order and the items
    \* substituted, the text being rewritten and the position of the last
    \* replacement
    gemini_pc, gemini_md_text, superscript_list, formatted_url,
    search_start, scanned, substitution_order, substituted, trans_md_text,
    replaced_from,
    \* openai_processor.split_html_by_headers: the call's position, the HTML
    \* text, the chunk size and the chunks returned
    html_pc, html_content, max_chunk_size, html_chunks,
    \* extract_reference_structured: the call's position, the nodes of the
    \* reference HTML and the result
    reference_pc, reference_html, reference_result,
    \* evaluate_predictions: the call's position, the predicted papers, the
    \* ground truth papers and the evaluation returned
    evaluate_pc, predicted_papers, ground_truth_papers, evaluation,
    \* calculate_batch_metrics: the call's position, the report directories
    \* read so far and their rows of metrics, the number of reports skipped
    \* and the summary
    batch_pc, report_dirs, all_metrics, skipped_files, summary_metrics,
    \* extract_citations_from_text / extract_no_citations_from_text: the
    \* call's position, which of the two runs, the number of blocks, the
    \* block being processed, the rows and the URL cache so far, the
    \* statement counter, the retries of the block, the blocks that ended with
    \* an error that is not retried, and the saved table
    extract_pc, extractor, text_blocks, block_index, all_rows,
    extract_cache, statement_counter, chunk_retries, dropped_blocks, out_csv,
    \* scrape_all and fetch_url_contents: the call in progress, the calls
    \* done, FIRECRAWL_API_KEY is set, use_cache, the files of raw_texts,
    \* the rows of the URL cache file and of the table in memory, the rows or
    \* URLs to work on and the position in them, and what the call reported
    \* for each
    scrape_pc, operations, firecrawl_api_key, use_cache, raw_texts_dir,
    url_cache_file, fetch_url_cache, work, work_index, scrape_log,
    \* infer/batch_infer: the template, the mapping, a row and its prompt
    template_pc, template_path, template_file, template, column_mapping,
    csv_row, original_prompt, prompt,
    \* openai_processor.convert_html_to_markdown_string: the call's position,
    \* the chunks, the futures of process_chunk, the pre-allocated list and
    \* the text returned
    convert_pc, convert_chunks, chunk_futures, markdown_chunks,
    markdown_content,
    \* two executions sharing a URL cache file: the file, the position of
    \* each execution, its table in memory, the ids it was handed and the
    \* order of the saves
    shared_cache_file, run_pc, run_cache, run_calls, save_order,
    \* gemini_processor.replace_superscripts_in_markdown by iterations: the
    \* call's position, md_text, data, the item of the for loop, start,
    \* potential_index, the matched_index of the items done and the
    \* iteration mark
    scan_pc, scan_md_text, scan_data, scan_position, scan_start,
    scan_potential_index, matched_indices, scan_tick,
    \* process_all_files: the call's position, the sorted input files and
    \* their contents, the workers' futures, the files of the output
    \* directory, and the two lists of the main thread
    parse_pc, json_files, file_content, file_futures, written_files,
    processed_results, failed_files

splitVars == <<text, max_size, split_pc, split_result>>

cacheVars == <<url_cache, cache_prev, cache_last>>

retryVars == <<retry_pc, max_retries, retry_attempt, invocations, last_error,
               last_is_rate_limit, only_other_errors, retry_result>>

harnessVars == <<harness_pc, start_idx, empty_prompts, available_models,
                 file_exists, output_file, existing_file, tasks, futures>>

voteVars == <<vote_pc, df_no_citations, max_workers, vote_done,
              verification_results, final_results>>

auditVars == <<audit_pc, audit_runs, include_no_citations, files,
               files_at_start, raw_texts, df_citations, audit_no_citations,
               df_match, invoked, reached, submitted>>

metricsVars == <<metrics_pc, results_dir, metrics>>

webVars == <<web_pc, web_retry_count, web_posts, web_outcome, web_wait_time,
             web_rate_limit_retries, web_error_retries>>

geminiVars == <<gemini_pc, gemini_md_text, superscript_list, formatted_url, search_start, scanned, substitution_order, substituted, trans_md_text, replaced_from>>

htmlVars == <<html_pc, html_content, max_chunk_size, html_chunks>>

referenceVars == <<reference_pc, reference_html, reference_result>>

evaluateVars == <<evaluate_pc, predicted_papers, ground_truth_papers, evaluation>>

batchVars == <<batch_pc, report_dirs, all_metrics, skipped_files, summary_metrics>>

extractVars == <<extract_pc, extractor, text_blocks, block_index, all_rows, extract_cache, statement_counter, chunk_retries, dropped_blocks, out_csv>>

scrapeVars == <<scrape_pc, operations, firecrawl_api_key, use_cache, raw_texts_dir, url_cache_file, fetch_url_cache, work, work_index, scrape_log>>

templateVars == <<template_pc, template_path, template_file, template, column_mapping, csv_row, original_prompt, prompt>>

convertVars == <<convert_pc, convert_chunks, chunk_futures, markdown_chunks, markdown_content>>

sharedVars == <<shared_cache_file, run_pc, run_cache, run_calls, save_order>>

scanVars == <<scan_pc, scan_md_text, scan_data, scan_position, scan_start, scan_potential_index, matched_indices, scan_tick>>

parseVars == <<parse_pc, json_files, file_content, file_futures, written_files, processed_results, failed_files>>

vars == <<splitVars, cacheVars, retryVars, harnessVars, voteVars, auditVars, metricsVars, webVars, geminiVars, htmlVars, referenceVars, evaluateVars, batchVars, extractVars, scrapeVars, templateVars, convertVars, sharedVars, scanVars, parseVars>>

\* what the steps of one subsystem leave alone
exceptSplit == <<cacheVars, retryVars, harnessVars, voteVars, auditVars, metricsVars, webVars, geminiVars, htmlVars, referenceVars, evaluateVars, batchVars, extractVars, scrapeVars, templateVars, convertVars, sharedVars, scanVars, parseVars>>
exceptCache == <<splitVars, retryVars, harnessVars, voteVars, auditVars, metricsVars, webVars, geminiVars, htmlVars, referenceVars, evaluateVars, batchVars, extractVars, scrapeVars, templateVars, convertVars, sharedVars, scanVars, parseVars>>
exceptRetry == <<splitVars, cacheVars, harnessVars, voteVars, auditVars, metricsVars, webVars, geminiVars, htmlVars, referenceVars, evaluateVars, batchVars, extractVars, scrapeVars, templateVars, convertVars, sharedVars, scanVars, parseVars>>
exceptHarness == <<splitVars, cacheVars, retryVars, voteVars, auditVars, metricsVars, webVars, geminiVars, htmlVars, referenceVars, evaluateVars, batchVars, extractVars, scrapeVars, templateVars, convertVars, sharedVars, scanVars, parseVars>>
exceptVote == <<splitVars, cacheVars, retryVars, harnessVars, auditVars, metricsVars, webVars, geminiVars, htmlVars, referenceVars, evaluateVars, batchVars, extractVars, scrapeVars, templateVars, convertVars, sharedVars, scanVars, parseVars>>
exceptAudit == <<splitVars, cacheVars, retryVars, harnessVars, voteVars, metricsVars, webVars, geminiVars, htmlVars, referenceVars, evaluateVars, batchVars, extractVars, scrapeVars, templateVars, convertVars, sharedVars, scanVars, parseVars>>
exceptMetrics == <<splitVars, cacheVars, retryVars, harnessVars, voteVars, auditVars, webVars, geminiVars, htmlVars, referenceVars, evaluateVars, batchVars, extractVars, scrapeVars, templateVars, convertVars, sharedVars, scanVars, parseVars>>
exceptWeb == <<splitVars, cacheVars, retryVars, harnessVars, voteVars, auditVars, metricsVars, geminiVars, htmlVars, referenceVars, evaluateVars, batchVars, extractVars, scrapeVars, templateVars, convertVars, sharedVars, scanVars, parseVars>>
exceptGemini == <<splitVars, cacheVars, retryVars, harnessVars, voteVars, auditVars, metricsVars, webVars, htmlVars, referenceVars, evaluateVars, batchVars, extractVars, scrapeVars, templateVars, convertVars, sharedVars, scanVars, parseVars>>
exceptHtml == <<splitVars, cacheVars, retryVars, harnessVars, voteVars, auditVars, metricsVars, webVars, geminiVars, referenceVars, evaluateVars, batchVars, extractVars, scrapeVars, templateVars, convertVars, sharedVars, scanVars, parseVars>>
exceptReference == <<splitVars, cacheVars, retryVars, harnessVars, voteVars, auditVars, metricsVars, webVars, geminiVars, htmlVars, evaluateVars, batchVars, extractVars, scrapeVars, templateVars, convertVars, sharedVars, scanVars, parseVars>>
exceptEvaluate == <<splitVars, cacheVars, retryVars, harnessVars, voteVars, auditVars, metricsVars, webVars, geminiVars, htmlVars, referenceVars, batchVars, extractVars, scrapeVars, templateVars, convertVars, sharedVars, scanVars, parseVars>>
exceptBatch == <<splitVars, cacheVars, retryVars, harnessVars, voteVars, auditVars, metricsVars, webVars, geminiVars, htmlVars, referenceVars, evaluateVars, extractVars, scrapeVars, templateVars, convertVars, sharedVars, scanVars, parseVars>>
exceptExtract == <<splitVars, cacheVars, retryVars, harnessVars, voteVars, auditVars, metricsVars, webVars, geminiVars, htmlVars, referenceVars, evaluateVars, batchVars, scrapeVars, templateVars, convertVars, sharedVars, scanVars, parseVars>>
exceptScrape == <<splitVars, cacheVars, retryVars, harnessVars, voteVars, auditVars, metricsVars, webVars, geminiVars, htmlVars, referenceVars, evaluateVars, batchVars, extractVars, templateVars, convertVars, sharedVars, scanVars, parseVars>>
exceptTemplate == <<splitVars, cacheVars, retryVars, harnessVars, voteVars, auditVars, metricsVars, webVars, geminiVars, htmlVars, referenceVars, evaluateVars, batchVars, extractVars, scrapeVars, convertVars, sharedVars, scanVars, parseVars>>
exceptConvert == <<splitVars, cacheVars, retryVars, harnessVars, voteVars, auditVars, metricsVars, webVars, geminiVars, htmlVars, referenceVars, evaluateVars, batchVars, extractVars, scrapeVars, templateVars, sharedVars, scanVars, parseVars>>
exceptShared == <<splitVars, cacheVars, retryVars, harnessVars, voteVars, auditVars, metricsVars, webVars, geminiVars, htmlVars, referenceVars, evaluateVars, batchVars, extractVars, scrapeVars, templateVars, convertVars, scanVars, parseVars>>
exceptScan == <<splitVars, cacheVars, retryVars, harnessVars, voteVars, auditVars, metricsVars, webVars, geminiVars, htmlVars, referenceVars, evaluateVars, batchVars, extractVars, scrapeVars, templateVars, convertVars, sharedVars, parseVars>>
exceptParse == <<splitVars, cacheVars, retryVars, harnessVars, voteVars, auditVars, metricsVars, webVars, geminiVars, htmlVars, referenceVars, evaluateVars, batchVars, extractVars, scrapeVars, templateVars, convertVars, sharedVars, scanVars>>

(***************************************************************************)
(* Strings                                                                 *)
(***************************************************************************)

\* s.startswith(p)
StartsWith(s, p) ==
    /\ Len(p) <= Len(s)
    /\ SubSeq(s, 1, Len(p)) = p

\* sub in s
Contains(s, sub) ==
    \E i \in 0..(Len(s) - Len(sub)) : SubSeq(s, i + 1, i + Len(sub)) = sub

\* s.find(c) for a single character, 1-based; 0 when c does not occur
RECURSIVE FindFrom(_, _, _)
FindFrom(s, c, i) ==
    IF i > Len(s) THEN 0
    ELSE IF s[i] = c THEN i
    ELSE FindFrom(s, c, i + 1)

FindChar(s, c) == FindFrom(s, c, 1)

\* s.split('\n'): the lines of s; "" splits into one empty line
RECURSIVE SplitLines(_)
SplitLines(s) ==
    LET k == FindChar(s, "\n")
    IN  IF k = 0 THEN <<s>>
        ELSE <<SubSeq(s, 1, k - 1)>> \o SplitLines(SubSeq(s, k + 1, Len(s)))

\* '\n'.join(parts)
RECURSIVE JoinLines(_)
JoinLines(parts) ==
    IF Len(parts) = 0 THEN <<>>
    ELSE IF Len(parts) = 1 THEN parts[1]
    ELSE parts[1] \o <<"\n">> \o JoinLines(Tail(parts))

Whitespace == {" ", "\n"}

\* bool(block.strip()): the block has a character that is not whitespace
StripNonEmpty(block) == \E i \in 1..Len(block) : block[i] \notin Whitespace

\* lines[a:b] for 0 <= a, b <= len(lines)
Slice(lines, a, b) == SubSeq(lines, a + 1, b)

\* all sequences over S of length at most n
SeqsUpTo(S, n) == UNION {[1..k -> S] : k \in 0..n}

(***************************************************************************)
(* utils.split_text_by_headers                                             *)
(***************************************************************************)

MaxTextLen == 5
MaxSize == 4

MarkdownChars == {"#", " ", "a", "\n"}

\* a level 1-3 heading line
IsHeaderLine(line) ==
    /\ StartsWith(line, <<"#">>)
    /\ \/ StartsWith(line, <<"#", " ">>)
       \/ StartsWith(line, <<"#", "#", " ">>)
       \/ StartsWith(line, <<"#", "#", "#", " ">>)

\* the 0-based indices of the heading lines, ascending
RECURSIVE HeaderIndicesFrom(_, _)
HeaderIndicesFrom(lines, i) ==
    IF i >= Len(lines) THEN <<>>
    ELSE (IF IsHeaderLine(lines[i + 1]) THEN <<i>> ELSE <<>>)
         \o HeaderIndicesFrom(lines, i + 1)

HeaderIndices(lines) == HeaderIndicesFrom(lines, 0)

\* the loop of the no-heading branch over lines[k..]
RECURSIVE NoHeaderLoop(_, _, _, _, _, _)
NoHeaderLoop(lines, k, size, blks, current_block, current_size) ==
    IF k > Len(lines)
    THEN IF Len(current_block) > 0
         THEN Append(blks, JoinLines(current_block))
         ELSE blks
    ELSE LET line == lines[k]
             line_size == Len(line) + 1
         IN  IF current_size + line_size > size /\ Len(current_block) > 0
             THEN NoHeaderLoop(lines, k + 1, size,
                               Append(blks, JoinLines(current_block)),
                               <<line>>, line_size)
             ELSE NoHeaderLoop(lines, k + 1, size, blks,
                               Append(current_block, line),
                               current_size + line_size)

\* the loop over all_indices[i..] of the heading branch; the result is
\* the blocks and current_start at the end of the loop
RECURSIVE HeaderLoop(_, _, _, _, _, _)
HeaderLoop(lines, all_indices, size, i, blks, current_start) ==
    IF i >= Len(all_indices)
    THEN [blocks |-> blks, current_start |-> current_start]
    ELSE LET current_end == all_indices[i + 1]
             prev_index == all_indices[i]
             candidate_lines == Slice(lines, current_start, current_end)
             candidate_text == JoinLines(candidate_lines)
         IN  IF Len(candidate_text) > size
             THEN IF current_start = prev_index
                  THEN HeaderLoop(lines, all_indices, size, i + 1,
                                  Append(blks, candidate_text), current_end)
                  ELSE LET prev_lines == Slice(lines, current_start, prev_index)
                           saved == IF Len(prev_lines) > 0
                                    THEN Append(blks, JoinLines(prev_lines))
                                    ELSE blks
                           current_text == JoinLines(Slice(lines, prev_index, current_end))
                       IN  HeaderLoop(lines, all_indices, size, i + 1,
                                      Append(saved, current_text), current_end)
             ELSE IF i = Len(all_indices) - 1
                  THEN HeaderLoop(lines, all_indices, size, i + 1,
                                  IF Len(candidate_lines) > 0
                                  THEN Append(blks, candidate_text)
                                  ELSE blks,
                                  current_end)
                  ELSE HeaderLoop(lines, all_indices, size, i + 1, blks, current_start)

\* blocks = [block for block in blocks if block.strip()]
FilterBlank(blks) == SelectSeq(blks, StripNonEmpty)

\* the blocks built by the no-heading branch
NoHeaderBlocks(t, size) == NoHeaderLoop(SplitLines(t), 1, size, <<>>, <<>>, 0)

\* the blocks built by the heading branch, after the blank blocks are dropped
HeaderBlocks(t, size) ==
    LET lines == SplitLines(t)
        all_indices == <<0>> \o HeaderIndices(lines) \o <<Len(lines)>>
        r == HeaderLoop(lines, all_indices, size, 1, <<>>, 0)
        withRest == IF r.current_start < Len(lines)
                    THEN Append(r.blocks, JoinLines(Slice(lines, r.current_start, Len(lines))))
                    ELSE r.blocks
    IN  FilterBlank(withRest)

\* assert reconstructed_text == text; return blocks
AssertReconstructs(t, blks) ==
    IF JoinLines(blks) = t
    THEN [status |-> "returned", blocks |-> blks]
    ELSE [status |-> "AssertionError", blocks |-> blks]

split_text_by_headers(t, size) ==
    IF HeaderIndices(SplitLines(t)) = <<>>
    THEN AssertReconstructs(t, NoHeaderBlocks(t, size))
    ELSE AssertReconstructs(t, HeaderBlocks(t, size))

SplitIdle ==
    /\ text = <<>>
    /\ max_size = 0
    /\ split_pc = "idle"
    /\ split_result = [status |-> "none", blocks |-> <<>>]

SplitInit ==
    /\ text \in SeqsUpTo(MarkdownChars, MaxTextLen)
    /\ max_size \in 1..MaxSize
    /\ split_pc = "call"
    /\ split_result = [status |-> "none", blocks |-> <<>>]

\* a call on a text without heading lines
SplitNoHeaders ==
    /\ split_pc = "call"
    /\ HeaderIndices(SplitLines(text)) = <<>>
    /\ split_result' = split_text_by_headers(text, max_size)
    /\ split_pc' = "done"
    /\ UNCHANGED <<text, max_size, exceptSplit>>

\* a call on a text with at least one heading line
SplitWithHeaders ==
    /\ split_pc = "call"
    /\ HeaderIndices(SplitLines(text)) # <<>>
    /\ split_result' = split_text_by_headers(text, max_size)
    /\ split_pc' = "done"
    /\ UNCHANGED <<text, max_size, exceptSplit>>

SplitNext == SplitNoHeaders \/ SplitWithHeaders

(***************************************************************************)
(* cache_utils: normalize_url, get_or_create_id_for_url                    *)
(***************************************************************************)

MaxRows == 2

\* generate_random_id draws from 62^10 identifiers; the model draws from
\* one more than the table can hold, so a fresh one always exists
IdSpace == 1..(MaxRows + 1)

Alpha == {"a", "A"}
SchemeChars == {"a", "A"}

\* str.lower on the characters of the model
LowerChar(c) == IF c = "A" THEN "a" ELSE c
Lower(s) == [k \in 1..Len(s) |-> LowerChar(s[k])]

\* the first position >= i of s holding a character of cs, Len(s)+1 if none
RECURSIVE FindAnyFrom(_, _, _)
FindAnyFrom(s, cs, i) ==
    IF i > Len(s) THEN Len(s) + 1
    ELSE IF s[i] \in cs THEN i
    ELSE FindAnyFrom(s, cs, i + 1)

\* urlsplit: url[:i] is a scheme when it is followed by ":", starts with a
\* letter and holds scheme characters only
HasScheme(url) ==
    LET i == FindChar(url, ":")
    IN  /\ i > 1
        /\ url[1] \in Alpha
        /\ \A k \in 1..(i - 1) : url[k] \in SchemeChars

UrlScheme(url) ==
    IF HasScheme(url) THEN Lower(SubSeq(url, 1, FindChar(url, ":") - 1)) ELSE <<>>

AfterScheme(url) ==
    IF HasScheme(url) THEN SubSeq(url, FindChar(url, ":") + 1, Len(url)) ELSE url

\* urlsplit: "//" starts the netloc, which ends before the next "/", "?" or "#"
HasNetloc(rest) == StartsWith(rest, <<"/", "/">>)

UrlNetloc(rest) ==
    IF HasNetloc(rest)
    THEN SubSeq(rest, 3, FindAnyFrom(rest, {"/", "?", "#"}, 3) - 1)
    ELSE <<>>

AfterNetloc(rest) ==
    IF HasNetloc(rest)
    THEN SubSeq(rest, FindAnyFrom(rest, {"/", "?", "#"}, 3), Len(rest))
    ELSE rest

\* s.split(c, 1): the part before the first c and the part after it
BeforeFirst(s, c) == IF FindChar(s, c) > 0 THEN SubSeq(s, 1, FindChar(s, c) - 1) ELSE s
AfterFirst(s, c) == IF FindChar(s, c) > 0 THEN SubSeq(s, FindChar(s, c) + 1, Len(s)) ELSE <<>>

\* urllib.parse.urlparse(url): scheme, netloc, path, query, fragment
urlparse(url) ==
    [scheme |-> UrlScheme(url),
     netloc |-> UrlNetloc(AfterScheme(url)),
     path |-> BeforeFirst(BeforeFirst(AfterNetloc(AfterScheme(url)), "#"), "?"),
     query |-> AfterFirst(BeforeFirst(AfterNetloc(AfterScheme(url)), "#"), "?"),
     fragment |-> AfterFirst(AfterNetloc(AfterScheme(url)), "#")]

\* a normalisation that forgets to drop the query string
normalize_url_keeps_query(url) ==
    LET parsed == urlparse(url)
    IN  parsed.scheme \o <<":", "/", "/">> \o parsed.netloc \o parsed.path
        \o (IF parsed.query = <<>> THEN <<>> ELSE <<"?">> \o parsed.query)

\* f"{parsed.scheme}://{parsed.netloc}{parsed.path}"
normalize_url(url) ==
    LET parsed == urlparse(url)
    IN  parsed.scheme \o <<":", "/", "/">> \o parsed.netloc \o parsed.path

\* the URLs handed to the cache:
\* a://a/a  a://a/a?a  A://a/a?A#a  a://a/A  //a/a  a:a  a://a  a/a?a:a
UrlInputs == {
    <<"a", ":", "/", "/", "a", "/", "a">>,
    <<"a", ":", "/", "/", "a", "/", "a", "?", "a">>,
    <<"A", ":", "/", "/", "a", "/", "a", "?", "A", "#", "a">>,
    <<"a", ":", "/", "/", "a", "/", "A">>,
    <<"/", "/", "a", "/", "a">>,
    <<"a", ":", "a">>,
    <<"a", ":", "/", "/", "a">>,
    <<"a", "/", "a", "?", "a", ":", "a">>
}

\* a call: its URL, the id it returned and the table it was given (of the
\* call before the last, the URL and the id)
NoCall == [called |-> FALSE, url |-> <<>>, id |-> 0, before |-> <<>>]

\* url_cache['random_id'].values
CacheIds(cache) == {cache[k].random_id : k \in 1..Len(cache)}

\* the rows of the cache whose normalized_url is n
ExistingRows(cache, n) == SelectSeq(cache, LAMBDA r : r.normalized_url = n)

\* an identifier generator that skips the collision loop
FreshIds_NoCollisionCheck(cache) == IdSpace

\* generate_random_id() repeated while the id is in the table: the ids
\* the loop can end with
FreshIds(cache) == IdSpace \ CacheIds(cache)

\* get_or_create_id_for_url(url, url_cache), with rid the id the
\* generation loop ends with
get_or_create_id_for_url(url, cache, rid) ==
    LET normalized == normalize_url(url)
        existing == ExistingRows(cache, normalized)
    IN  IF existing # <<>>
        THEN [id |-> existing[1].random_id, cache |-> cache]
        ELSE [id |-> rid,
              cache |-> Append(cache, [url |-> url,
                                       normalized_url |-> normalized,
                                       random_id |-> rid])]

CacheIdle ==
    /\ url_cache = <<>>
    /\ cache_prev = [called |-> FALSE, url |-> <<>>, id |-> 0]
    /\ cache_last = NoCall

\* load_or_create_url_cache without a cache file: an empty table
CacheInit == CacheIdle

CallRecord(url, r, before) ==
    [called |-> TRUE, url |-> url, id |-> r.id, before |-> before]

\* a call for a URL whose normalized form is in the table
GetOrCreateHit ==
    \E url \in UrlInputs :
        /\ ExistingRows(url_cache, normalize_url(url)) # <<>>
        /\ LET r == get_or_create_id_for_url(url, url_cache, 0)
           IN  /\ url_cache' = r.cache
               /\ cache_last' = CallRecord(url, r, url_cache)
        /\ cache_prev' = [called |-> cache_last.called, url |-> cache_last.url,
                           id |-> cache_last.id]
        /\ UNCHANGED exceptCache

\* a call for a URL whose normalized form is not in the table
GetOrCreateMiss ==
    \E url \in UrlInputs :
        /\ ExistingRows(url_cache, normalize_url(url)) = <<>>
        /\ Len(url_cache) < MaxRows
        /\ \E rid \in FreshIds(url_cache) :
              LET r == get_or_create_id_for_url(url, url_cache, rid)
              IN  /\ url_cache' = r.cache
                  /\ cache_last' = CallRecord(url, r, url_cache)
        /\ cache_prev' = [called |-> cache_last.called, url |-> cache_last.url,
                           id |-> cache_last.id]
        /\ UNCHANGED exceptCache

CacheNext == GetOrCreateHit \/ GetOrCreateMiss

(***************************************************************************)
(* infer/batch_infer: is_rate_limit_error, infer_single_with_retry         *)
(*                                                                         *)
(* A character outside ASCII is written "uXXXX" with its code point.       *)
(***************************************************************************)

UpperCase == <<"A", "B", "C", "D", "E", "F", "G", "H", "I", "J", "K", "L", "M", "N", "O", "P", "Q", "R", "S", "T", "U", "V", "W", "X", "Y", "Z">>
LowerCase == <<"a", "b", "c", "d", "e", "f", "g", "h", "i", "j", "k", "l", "m", "n", "o", "p", "q", "r", "s", "t", "u", "v", "w", "x", "y", "z">>

\* str.lower() on one character
ToLowerChar(c) ==
    IF \E k \in 1..26 : UpperCase[k] = c
    THEN LowerCase[CHOOSE k \in 1..26 : UpperCase[k] = c]
    ELSE c

\* error_message.lower()
ToLower(s) == [k \in 1..Len(s) |-> ToLowerChar(s[k])]

\* rate_limit_indicators:
\* rate limit, rate_limit, ratelimit, 429, too many requests, quota exceeded, throttled, throttling, U+9650U+6d41,
\* U+9891U+7387U+9650U+5236, exceed, maximum, limit exceeded, retry after, retry-after, U+8bf7U+6c42U+8fc7U+4e8eU+9891U+7e41, concurrent requests, U+8bf7U+7a0dU+540eU+91cdU+8bd5
rate_limit_indicators == <<
    <<"r", "a", "t", "e", " ", "l", "i", "m", "i", "t">>,
    <<"r", "a", "t", "e", "_", "l", "i", "m", "i", "t">>,
    <<"r", "a", "t", "e", "l", "i", "m", "i", "t">>,
    <<"4", "2", "9">>,
    <<"t", "o", "o", " ", "m", "a", "n", "y", " ", "r", "e", "q", "u", "e", "s", "t", "s">>,
    <<"q", "u", "o", "t", "a", " ", "e", "x", "c", "e", "e", "d", "e", "d">>,
    <<"t", "h", "r", "o", "t", "t", "l", "e", "d">>,
    <<"t", "h", "r", "o", "t", "t", "l", "i", "n", "g">>,
    <<"u9650", "u6d41">>,
    <<"u9891", "u7387", "u9650", "u5236">>,
    <<"e", "x", "c", "e", "e", "d">>,
    <<"m", "a", "x", "i", "m", "u", "m">>,
    <<"l", "i", "m", "i", "t", " ", "e", "x", "c", "e", "e", "d", "e", "d">>,
    <<"r", "e", "t", "r", "y", " ", "a", "f", "t", "e", "r">>,
    <<"r", "e", "t", "r", "y", "-", "a", "f", "t", "e", "r">>,
    <<"u8bf7", "u6c42", "u8fc7", "u4e8e", "u9891", "u7e41">>,
    <<"c", "o", "n", "c", "u", "r", "r", "e", "n", "t", " ", "r", "e", "q", "u", "e", "s", "t", "s">>,
    <<"u8bf7", "u7a0d", "u540e", "u91cd", "u8bd5">>
>>

\* any(indicator in error_message.lower() for indicator in rate_limit_indicators)
is_rate_limit_error(error_message) ==
    \E k \in 1..Len(rate_limit_indicators) :
        Contains(ToLower(error_message), rate_limit_indicators[k])

\* the texts error messages are made of:
\* Error code: 429, Rate Limit reached, U+8bf7U+7a0dU+540eU+91cdU+8bd5, Quota Exceeded, connection reset, maximum recursion depth exceeded, timeout, Throttle, invalid api key
ErrorFragments == {
    <<"E", "r", "r", "o", "r", " ", "c", "o", "d", "e", ":", " ", "4", "2", "9">>,
    <<"R", "a", "t", "e", " ", "L", "i", "m", "i", "t", " ", "r", "e", "a", "c", "h", "e", "d">>,
    <<"u8bf7", "u7a0d", "u540e", "u91cd", "u8bd5">>,
    <<"Q", "u", "o", "t", "a", " ", "E", "x", "c", "e", "e", "d", "e", "d">>,
    <<"c", "o", "n", "n", "e", "c", "t", "i", "o", "n", " ", "r", "e", "s", "e", "t">>,
    <<"m", "a", "x", "i", "m", "u", "m", " ", "r", "e", "c", "u", "r", "s", "i", "o", "n", " ", "d", "e", "p", "t", "h", " ", "e", "x", "c", "e", "e", "d", "e", "d">>,
    <<"t", "i", "m", "e", "o", "u", "t">>,
    <<"T", "h", "r", "o", "t", "t", "l", "e">>,
    <<"i", "n", "v", "a", "l", "i", "d", " ", "a", "p", "i", " ", "k", "e", "y">>
}

MaxFragments == 1

\* MaxFragments or fewer fragments joined by ": "
RECURSIVE MessagesOf(_)
MessagesOf(n) ==
    IF n = 0 THEN {}
    ELSE IF n = 1 THEN ErrorFragments
    ELSE MessagesOf(n - 1)
         \cup {m \o <<":", " ">> \o f : m \in MessagesOf(n - 1), f \in ErrorFragments}

ErrorMessages == MessagesOf(MaxFragments)

\* the messages is_rate_limit_error(error_msg) is true of
RateLimitErrors == {msg \in ErrorMessages : is_rate_limit_error(msg)}

\* the messages is_rate_limit_error returns False for
OtherErrors == ErrorMessages \ RateLimitErrors

\* the keywords the classification must accept: 429, rate limit, U+8bf7..., quota exceeded
MustClassifyKeywords == {
    <<"4", "2", "9">>,
    <<"r", "a", "t", "e", " ", "l", "i", "m", "i", "t">>,
    <<"u8bf7", "u7a0d", "u540e", "u91cd", "u8bd5">>,
    <<"q", "u", "o", "t", "a", " ", "e", "x", "c", "e", "e", "d", "e", "d">>
}

\* the documented keyword set: rate limit, 429, too many requests, quota
\* exceeded, throttle, retry-after, concurrent requests and the Chinese ones
DocumentedKeywords == {
    <<"r", "a", "t", "e", " ", "l", "i", "m", "i", "t">>,
    <<"4", "2", "9">>,
    <<"t", "o", "o", " ", "m", "a", "n", "y", " ", "r", "e", "q", "u", "e", "s", "t", "s">>,
    <<"q", "u", "o", "t", "a", " ", "e", "x", "c", "e", "e", "d", "e", "d">>,
    <<"t", "h", "r", "o", "t", "t", "l", "e">>,
    <<"r", "e", "t", "r", "y", "-", "a", "f", "t", "e", "r">>,
    <<"c", "o", "n", "c", "u", "r", "r", "e", "n", "t", " ", "r", "e", "q", "u", "e", "s", "t", "s">>,
    <<"u9650", "u6d41">>,
    <<"u9891", "u7387", "u9650", "u5236">>,
    <<"u8bf7", "u6c42", "u8fc7", "u4e8e", "u9891", "u7e41">>,
    <<"u8bf7", "u7a0d", "u540e", "u91cd", "u8bd5">>
}

MaxRetriesInput == 3
MaxInvocations == 5

NoResult == [returned |-> FALSE, success |-> FALSE, retry_count |-> 0,
             is_rate_limit |-> FALSE, error |-> <<>>]

\* a retry rule that allows one retry too many
should_retry_one_more(is_rate_limit, attempt, retries) ==
    is_rate_limit \/ attempt <= retries

\* should_retry: a rate-limit error always, another error while
\* attempt < max_retries
should_retry(is_rate_limit, attempt, retries) ==
    is_rate_limit \/ attempt < retries

RetryIdle ==
    /\ retry_pc = "idle"
    /\ max_retries = 0
    /\ retry_attempt = 0
    /\ invocations = 0
    /\ last_error = <<>>
    /\ last_is_rate_limit = FALSE
    /\ only_other_errors = TRUE
    /\ retry_result = NoResult

\* the call infer_single_with_retry(model, prompt, model_name, max_retries)
RetryInit ==
    /\ retry_pc = "invoke"
    /\ max_retries \in 0..MaxRetriesInput
    /\ retry_attempt = 0
    /\ invocations = 0
    /\ last_error = <<>>
    /\ last_is_rate_limit = FALSE
    /\ only_other_errors = TRUE
    /\ retry_result = NoResult

\* model.invoke returns: the success result
InvokeSucceeds ==
    /\ retry_pc = "invoke"
    /\ invocations' = invocations + 1
    /\ retry_result' = [returned |-> TRUE, success |-> TRUE,
                        retry_count |-> retry_attempt,
                        is_rate_limit |-> FALSE, error |-> <<>>]
    /\ retry_pc' = "returned"
    /\ UNCHANGED <<max_retries, retry_attempt, last_error, last_is_rate_limit,
                   only_other_errors, exceptRetry>>

\* model.invoke raises an error classified as rate-limit: retry
InvokeRateLimited ==
    \E msg \in RateLimitErrors :
        /\ retry_pc = "invoke"
        /\ invocations + 1 < MaxInvocations
        /\ should_retry(TRUE, retry_attempt, max_retries)
        /\ invocations' = invocations + 1
        /\ last_error' = msg
        /\ last_is_rate_limit' = TRUE
        /\ only_other_errors' = FALSE
        /\ retry_attempt' = retry_attempt + 1
        /\ UNCHANGED <<retry_pc, max_retries, retry_result, exceptRetry>>

\* model.invoke raises another error while retries are left: retry
InvokeErrorRetried ==
    \E msg \in OtherErrors :
        /\ retry_pc = "invoke"
        /\ invocations + 1 < MaxInvocations
        /\ should_retry(FALSE, retry_attempt, max_retries)
        /\ invocations' = invocations + 1
        /\ last_error' = msg
        /\ last_is_rate_limit' = FALSE
        /\ retry_attempt' = retry_attempt + 1
        /\ UNCHANGED <<retry_pc, max_retries, only_other_errors, retry_result,
                       exceptRetry>>

\* model.invoke raises an error that is not retried: the failure result
InvokeErrorReturned ==
    \E is_rate_limit \in BOOLEAN :
        \E msg \in (IF is_rate_limit THEN RateLimitErrors ELSE OtherErrors) :
            /\ retry_pc = "invoke"
            /\ ~should_retry(is_rate_limit, retry_attempt, max_retries)
            /\ invocations' = invocations + 1
            /\ last_error' = msg
            /\ last_is_rate_limit' = is_rate_limit
            /\ only_other_errors' = (only_other_errors /\ ~is_rate_limit)
            /\ retry_result' = [returned |-> TRUE, success |-> FALSE,
                                retry_count |-> retry_attempt,
                                is_rate_limit |-> is_rate_limit,
                                error |-> msg]
            /\ retry_pc' = "returned"
            /\ UNCHANGED <<max_retries, retry_attempt, exceptRetry>>

RetryNext ==
    \/ InvokeSucceeds
    \/ InvokeRateLimited
    \/ InvokeErrorRetried
    \/ InvokeErrorReturned

(***************************************************************************)
(* infer/batch_infer: batch_infer_parallel                                 *)
(*                                                                         *)
(* The output file is kept per (row_index, model_name): the success flags  *)
(* of the records written for the pair, in the order they were written.    *)
(***************************************************************************)

NumRows == 2

\* the keys of the models dictionary, in its order
ModelNames == <<"M", "other_model">>

RowIndices == 0..(NumRows - 1)

Pairs == RowIndices \X {ModelNames[k] : k \in 1..Len(ModelNames)}

EmptyFile == [p \in Pairs |-> <<>>]

\* the (row_index, model_name) of the lines of the file
FilePairs(file) == {p \in Pairs : Len(file[p]) > 0}

\* processed_items: read from the file only if it exists and start_idx > 0
load_processed_items(exists, file, start) ==
    IF exists /\ start > 0 THEN FilePairs(file) ELSE {}

\* a task construction without the resume check
task_queued_unchecked(idx, model_name, processed) == TRUE

\* the check `(idx, model_name) in processed_items` that skips a task
task_queued(idx, model_name, processed) == <<idx, model_name>> \notin processed

\* the rows that get tasks: idx >= start_idx with a non-empty prompt
row_selected(idx, start, empties) == idx >= start /\ idx \notin empties

\* the tasks list from position k of the rows x models iteration on
RECURSIVE build_tasks(_, _, _, _, _)
build_tasks(k, start, empties, available, processed) ==
    IF k >= NumRows * Len(ModelNames) THEN <<>>
    ELSE LET idx == k \div Len(ModelNames)
             model_name == ModelNames[(k % Len(ModelNames)) + 1]
         IN  (IF /\ row_selected(idx, start, empties)
                 /\ model_name \in available
                 /\ task_queued(idx, model_name, processed)
              THEN <<<<idx, model_name>>>>
              ELSE <<>>)
             \o build_tasks(k + 1, start, empties, available, processed)

\* the tasks of this run
prepared_tasks ==
    build_tasks(0, start_idx, empty_prompts, available_models,
                load_processed_items(file_exists, output_file, start_idx))

HarnessIdle ==
    /\ harness_pc = "idle"
    /\ start_idx = 0
    /\ empty_prompts = {}
    /\ available_models = {}
    /\ file_exists = FALSE
    /\ output_file = EmptyFile
    /\ existing_file = EmptyFile
    /\ tasks = <<>>
    /\ futures = <<>>

\* a call of batch_infer_parallel: the data rows, the constructed models
\* (build_models leaves at least one), start_idx and the output file a
\* former run left, with at most one record per pair
HarnessInit ==
    /\ harness_pc = "prepare"
    /\ start_idx \in 0..NumRows
    /\ empty_prompts \in SUBSET RowIndices
    /\ available_models \in (SUBSET {ModelNames[k] : k \in 1..Len(ModelNames)}) \ {{}}
    /\ file_exists \in BOOLEAN
    /\ output_file \in [Pairs -> {<<>>, <<TRUE>>}]
    /\ ~file_exists => output_file = EmptyFile
    /\ existing_file = output_file
    /\ tasks = <<>>
    /\ futures = <<>>

\* no task is left: return before the file is opened
PrepareNoTasks ==
    /\ harness_pc = "prepare"
    /\ prepared_tasks = <<>>
    /\ harness_pc' = "done"
    /\ UNCHANGED <<start_idx, empty_prompts, available_models, file_exists,
                   output_file, existing_file, tasks, futures, exceptHarness>>

\* the tasks are built, the file is opened ('a' if start_idx > 0 else 'w')
\* and every task is submitted
PrepareAndSubmit ==
    /\ harness_pc = "prepare"
    /\ prepared_tasks # <<>>
    /\ tasks' = prepared_tasks
    /\ futures' = [k \in 1..Len(prepared_tasks) |-> "pending"]
    /\ file_exists' = TRUE
    /\ output_file' = IF start_idx > 0 THEN output_file ELSE EmptyFile
    /\ harness_pc' = "collect"
    /\ UNCHANGED <<start_idx, empty_prompts, available_models, existing_file,
                   exceptHarness>>

\* a future completes with a result (success, or the failure result of
\* infer_single_with_retry) and write_result_to_file appends it
ResultWritten ==
    \E k \in 1..Len(tasks), success \in BOOLEAN :
        /\ harness_pc = "collect"
        /\ futures[k] = "pending"
        /\ futures' = [futures EXCEPT ![k] = "written"]
        /\ output_file' = [output_file EXCEPT ![tasks[k]] = Append(@, success)]
        /\ UNCHANGED <<harness_pc, start_idx, empty_prompts, available_models,
                       file_exists, existing_file, tasks, exceptHarness>>

\* future.result() or the serialisation of the result raises: error_result
\* is built and the progress bar updated, nothing is written
TaskRaised ==
    \E k \in 1..Len(tasks) :
        /\ harness_pc = "collect"
        /\ futures[k] = "pending"
        /\ futures' = [futures EXCEPT ![k] = "raised"]
        /\ UNCHANGED <<harness_pc, start_idx, empty_prompts, available_models,
                       file_exists, output_file, existing_file, tasks,
                       exceptHarness>>

\* as_completed is exhausted: the file is closed
HarnessFinish ==
    /\ harness_pc = "collect"
    /\ \A k \in 1..Len(tasks) : futures[k] # "pending"
    /\ harness_pc' = "done"
    /\ UNCHANGED <<start_idx, empty_prompts, available_models, file_exists,
                   output_file, existing_file, tasks, futures, exceptHarness>>

HarnessNext ==
    \/ PrepareNoTasks
    \/ PrepareAndSubmit
    \/ ResultWritten
    \/ TaskRaised
    \/ HarnessFinish

(***************************************************************************)
(* statement/verify_no_citations_web: verify_no_citations_web              *)
(*                                                                         *)
(* A row of df_no_citations is its ID.  A decision is the JSON value of    *)
(* the reply: "True", "False", or the numbers "0" and "1".  confidence is  *)
(* the quotient num / den.                                                 *)
(***************************************************************************)

MaxStatements == 1

MaxWorkers == 2

\* range(1, 4)
Attempts == 3

StatementIds == {"s1", "s2"}

\* the model names of build_web_llms()
web_llms == <<"gemini-2.5-pro", "gemini-2.5-flash">>

DecisionValues == {"True", "False", "0"}

\* U+6B63 U+786E, U+9519 U+8BEF, U+5E73 U+5C40
Correct == "u6B63u786E"
Incorrect == "u9519u8BEF"
Tie == "u5E73u5C40"

\* the tasks list: for every row, for every web LLM, attempts 1, 2, 3
vote_tasks(df) ==
    [k \in 1..(Len(df) * Len(web_llms) * Attempts) |->
        [ID |-> df[((k - 1) \div (Len(web_llms) * Attempts)) + 1],
         llm_model |-> web_llms[(((k - 1) \div Attempts) % Len(web_llms)) + 1],
         attempt |-> ((k - 1) % Attempts) + 1]]

\* the futures a pool of `workers` threads is running once those of `done`
\* have completed: the pool takes the tasks in the order of submission
in_flight(df, workers, done) ==
    {k \in 1..Len(vote_tasks(df)) : k \notin done /\ k <= Cardinality(done) + workers}

\* boolean_decisions: a bool is kept, another value goes through bool()
as_bool(decision) ==
    IF decision \in {"True", "False"} THEN decision = "True" ELSE decision # "0"

\* df_verification['ID'].unique(): the IDs in the order of first appearance
RECURSIVE unique_ids(_)
unique_ids(results) ==
    IF results = <<>> THEN <<>>
    ELSE LET init == unique_ids(SubSeq(results, 1, Len(results) - 1))
             id == results[Len(results)].ID
         IN  IF \E i \in 1..Len(init) : init[i] = id THEN init ELSE Append(init, id)

\* the number of true values of boolean_decisions
count_true(statement_data) ==
    Cardinality({i \in 1..Len(statement_data) : as_bool(statement_data[i].decision)})

\* a vote in which equal counts go to the true side
final_decision_ties_to_true(true_votes, false_votes) ==
    IF false_votes > true_votes THEN Incorrect ELSE Correct

final_decision(true_votes, false_votes) ==
    IF false_votes > true_votes THEN Incorrect
    ELSE IF true_votes > false_votes THEN Correct
    ELSE Tie

confidence(true_votes, false_votes, total_valid_votes) ==
    IF false_votes > true_votes
    THEN (IF total_valid_votes > 0 THEN [num |-> false_votes, den |-> total_valid_votes]
          ELSE [num |-> 0, den |-> 1])
    ELSE IF true_votes > false_votes
    THEN (IF total_valid_votes > 0 THEN [num |-> true_votes, den |-> total_valid_votes]
          ELSE [num |-> 0, den |-> 1])
    ELSE [num |-> 1, den |-> 2]

\* the final record of one statement_id
final_result(results, statement_id) ==
    LET statement_data == SelectSeq(results, LAMBDA r : r.ID = statement_id)
        true_votes == count_true(statement_data)
        false_votes == Len(statement_data) - true_votes
    IN  [ID |-> statement_id,
         true_votes |-> true_votes,
         false_votes |-> false_votes,
         total_votes |-> Len(statement_data),
         final_decision |-> final_decision(true_votes, false_votes),
         confidence |-> confidence(true_votes, false_votes, Len(statement_data))]

VoteIdle ==
    /\ vote_pc = "idle"
    /\ df_no_citations = <<>>
    /\ max_workers = 0
    /\ vote_done = {}
    /\ verification_results = <<>>
    /\ final_results = <<>>

\* a call of verify_no_citations_web: every task is submitted to the pool
VoteInit ==
    /\ vote_pc = "collect"
    /\ df_no_citations \in SeqsUpTo(StatementIds, MaxStatements)
    /\ max_workers \in 1..MaxWorkers
    /\ vote_done = {}
    /\ verification_results = <<>>
    /\ final_results = <<>>

\* what a call of verify_single_statement_task ends with: a reply with a
\* decision, a reply no JSON can be read from, or an exception of generate
TaskOutcomes ==
    {[kind |-> "decided", decision |-> d] : d \in DecisionValues}
    \cup {[kind |-> "unparseable", decision |-> "False"],
          [kind |-> "raised", decision |-> "False"]}

\* a collection that keeps only the calls that gave a decision
collect_result_if_decided(results, result) ==
    IF result.kind = "decided" THEN Append(results, result) ELSE results

\* verification_results.append(result)
collect_result(results, result) == Append(results, result)

\* as_completed yields a future: its result is appended; a call that
\* raised or whose reply cannot be parsed returns decision False
VoteCompleted ==
    \E k \in in_flight(df_no_citations, max_workers, vote_done),
       outcome \in TaskOutcomes :
        /\ vote_pc = "collect"
        /\ vote_done' = vote_done \cup {k}
        /\ verification_results' =
               collect_result(verification_results,
                      [ID |-> vote_tasks(df_no_citations)[k].ID,
                       llm_model |-> vote_tasks(df_no_citations)[k].llm_model,
                       attempt |-> vote_tasks(df_no_citations)[k].attempt,
                       decision |-> outcome.decision,
                       kind |-> outcome.kind])
        /\ UNCHANGED <<vote_pc, df_no_citations, max_workers, final_results,
                       exceptVote>>

\* every future is collected: the votes of every ID are counted
TallyVotes ==
    /\ vote_pc = "collect"
    /\ Cardinality(vote_done) = Len(vote_tasks(df_no_citations))
    /\ verification_results # <<>>
    /\ final_results' =
           [i \in 1..Len(unique_ids(verification_results)) |->
               final_result(verification_results, unique_ids(verification_results)[i])]
    /\ vote_pc' = "done"
    /\ UNCHANGED <<df_no_citations, max_workers, vote_done, verification_results,
                   exceptVote>>

\* without a row there is no result and the frame of them has no column
\* ID: df_verification['ID'] raises
TallyWithoutVotes ==
    /\ vote_pc = "collect"
    /\ Len(vote_tasks(df_no_citations)) = 0
    /\ vote_pc' = "KeyError"
    /\ UNCHANGED <<df_no_citations, max_workers, vote_done, verification_results,
                   final_results, exceptVote>>

VoteNext ==
    \/ VoteCompleted
    \/ TallyVotes
    \/ TallyWithoutVotes

(***************************************************************************)
(* statement_evaluator: process_single_json, from the first step on        *)
(*                                                                         *)
(* A table (a CSV file or a frame in memory) is the set of the IDs of its  *)
(* rows.  The files of the report directory and the raw_texts directory    *)
(* outlive a run.  submitted holds the citations find_best_sentence was   *)
(* called for, in this run or an earlier one.                              *)
(***************************************************************************)

MaxRuns == 2

MaxCitations == 2

MaxNoCitations == 1

CitationIds == 1..MaxCitations

StepFiles ==
    {"citations.csv", "no_citations.csv", "no_citations_web_final.csv",
     "matched.csv", "final.csv"}

\* the function that writes each file
StepFunction ==
    [f \in StepFiles |->
        CASE f = "citations.csv" -> "extract_citations_from_text"
          [] f = "no_citations.csv" -> "extract_no_citations_from_text"
          [] f = "no_citations_web_final.csv" -> "verify_no_citations_web"
          [] f = "matched.csv" -> "match_sentences"
          [] f = "final.csv" -> "verify"]

AbsentFile == [exists |-> FALSE, rows |-> {}]

\* save_csv(df, path)
SavedFile(rows) == [exists |-> TRUE, rows |-> rows]

\* a step that runs its function whether or not its file exists
step_is_due_always(fs, f) == TRUE

\* `if Path(results_dir / f).exists()` fails: the step's function is due
step_is_due(fs, f) == ~fs[f].exists

\* the step after citations.csv
AfterCitations(include) == IF include THEN "no_citations" ELSE "scrape"

\* the step after no_citations.csv: `if not df_no_citations.empty`
AfterNoCitations(rows) == IF rows # {} THEN "web_verify" ELSE "scrape"

AuditIdle ==
    /\ audit_pc = "idle"
    /\ audit_runs = 0
    /\ include_no_citations = FALSE
    /\ files = [f \in StepFiles |-> AbsentFile]
    /\ files_at_start = [f \in StepFiles |-> AbsentFile]
    /\ raw_texts = {}
    /\ df_citations = {}
    /\ audit_no_citations = {}
    /\ df_match = {}
    /\ invoked = {}
    /\ reached = {}
    /\ submitted = {}

\* the first run for a report: any of the files may be there, left by
\* former runs (final within matched within citations), and raw_texts holds
\* the texts other reports fetched
\* (the former runs matched what they had fetched)
AuditInit ==
    /\ audit_pc = "citations"
    /\ audit_runs = 1
    /\ include_no_citations \in BOOLEAN
    /\ \E present \in SUBSET StepFiles, c \in SUBSET CitationIds,
          n \in 0..MaxNoCitations :
        \E m \in SUBSET c :
            \E v \in SUBSET m :
                files = [f \in StepFiles |->
                            IF f \notin present THEN AbsentFile
                            ELSE CASE f = "citations.csv" -> SavedFile(c)
                                   [] f = "no_citations.csv" -> SavedFile(1..n)
                                   [] f = "no_citations_web_final.csv" -> SavedFile(1..n)
                                   [] f = "matched.csv" -> SavedFile(m)
                                   [] f = "final.csv" -> SavedFile(v)]
    /\ files_at_start = files
    /\ raw_texts \in SUBSET CitationIds
    /\ df_citations = {}
    /\ audit_no_citations = {}
    /\ df_match = {}
    /\ invoked = {}
    /\ reached = {"citations"}
    /\ submitted = IF files["matched.csv"].exists
                   THEN files["matched.csv"].rows
                        \cup (files["citations.csv"].rows \cap raw_texts)
                   ELSE {}

\* step 1, citations.csv exists: it is read
ReadCitations ==
    /\ audit_pc = "citations"
    /\ ~step_is_due(files, "citations.csv")
    /\ df_citations' = files["citations.csv"].rows
    /\ audit_pc' = AfterCitations(include_no_citations)
    /\ reached' = reached \cup {audit_pc'}
    /\ UNCHANGED <<audit_runs, include_no_citations, files, files_at_start,
                   raw_texts, audit_no_citations, df_match, invoked, submitted, exceptAudit>>

\* step 1: extract_citations_from_text writes citations.csv
ExtractCitations ==
    \E rows \in SUBSET CitationIds :
        /\ audit_pc = "citations"
        /\ step_is_due(files, "citations.csv")
        /\ invoked' = invoked \cup {"extract_citations_from_text"}
        /\ files' = [files EXCEPT !["citations.csv"] = SavedFile(rows)]
        /\ df_citations' = rows
        /\ audit_pc' = AfterCitations(include_no_citations)
        /\ reached' = reached \cup {audit_pc'}
        /\ UNCHANGED <<audit_runs, include_no_citations, files_at_start,
                       raw_texts, audit_no_citations, df_match, submitted, exceptAudit>>

\* step 1b, no_citations.csv exists: it is read
ReadNoCitations ==
    /\ audit_pc = "no_citations"
    /\ ~step_is_due(files, "no_citations.csv")
    /\ audit_no_citations' = files["no_citations.csv"].rows
    /\ audit_pc' = AfterNoCitations(audit_no_citations')
    /\ reached' = reached \cup {audit_pc'}
    /\ UNCHANGED <<audit_runs, include_no_citations, files, files_at_start,
                   raw_texts, df_citations, df_match, invoked, submitted, exceptAudit>>

\* step 1b: extract_no_citations_from_text writes no_citations.csv with
\* the statements NC_001 .. NC_n
ExtractNoCitations ==
    \E n \in 0..MaxNoCitations :
        /\ audit_pc = "no_citations"
        /\ step_is_due(files, "no_citations.csv")
        /\ invoked' = invoked \cup {"extract_no_citations_from_text"}
        /\ files' = [files EXCEPT !["no_citations.csv"] = SavedFile(1..n)]
        /\ audit_no_citations' = 1..n
        /\ audit_pc' = AfterNoCitations(1..n)
        /\ reached' = reached \cup {audit_pc'}
        /\ UNCHANGED <<audit_runs, include_no_citations, files_at_start,
                       raw_texts, df_citations, df_match, submitted, exceptAudit>>

\* step 3b, no_citations_web_final.csv exists: nothing is done
SkipWebVerify ==
    /\ audit_pc = "web_verify"
    /\ ~step_is_due(files, "no_citations_web_final.csv")
    /\ audit_pc' = "scrape"
    /\ reached' = reached \cup {audit_pc'}
    /\ UNCHANGED <<audit_runs, include_no_citations, files, files_at_start,
                   raw_texts, df_citations, audit_no_citations, df_match,
                   invoked, submitted, exceptAudit>>

\* step 3b: verify_no_citations_web writes one final record per statement
WebVerify ==
    /\ audit_pc = "web_verify"
    /\ step_is_due(files, "no_citations_web_final.csv")
    /\ invoked' = invoked \cup {"verify_no_citations_web"}
    /\ files' = [files EXCEPT !["no_citations_web_final.csv"] =
                                  SavedFile(audit_no_citations)]
    /\ audit_pc' = "scrape"
    /\ reached' = reached \cup {audit_pc'}
    /\ UNCHANGED <<audit_runs, include_no_citations, files_at_start, raw_texts,
                   df_citations, audit_no_citations, df_match, submitted, exceptAudit>>

\* step 2: scrape_all fetches the cited sources raw_texts lacks; a fetch
\* may fail
ScrapeAll ==
    \E fetched \in SUBSET (df_citations \ raw_texts) :
        /\ audit_pc = "scrape"
        /\ invoked' = invoked \cup {"scrape_all"}
        /\ raw_texts' = raw_texts \cup fetched
        /\ audit_pc' = "match"
        /\ reached' = reached \cup {audit_pc'}
        /\ UNCHANGED <<audit_runs, include_no_citations, files, files_at_start,
                       df_citations, audit_no_citations, df_match, submitted, exceptAudit>>

\* step 3, matched.csv exists: it is read
ReadMatched ==
    /\ audit_pc = "match"
    /\ ~step_is_due(files, "matched.csv")
    /\ df_match' = files["matched.csv"].rows
    /\ audit_pc' = "verify"
    /\ reached' = reached \cup {audit_pc'}
    /\ UNCHANGED <<audit_runs, include_no_citations, files, files_at_start,
                   raw_texts, df_citations, audit_no_citations, invoked,
                   submitted, exceptAudit>>

\* step 3: match_sentences writes a row for the citations whose source
\* text is in raw_texts, less those the model call fails for
MatchSentences ==
    \E rows \in SUBSET (df_citations \cap raw_texts) :
        /\ audit_pc = "match"
        /\ step_is_due(files, "matched.csv")
        /\ invoked' = invoked \cup {"match_sentences"}
        /\ files' = [files EXCEPT !["matched.csv"] = SavedFile(rows)]
        /\ df_match' = rows
        /\ submitted' = submitted \cup (df_citations \cap raw_texts)
        /\ audit_pc' = "verify"
        /\ reached' = reached \cup {audit_pc'}
        /\ UNCHANGED <<audit_runs, include_no_citations, files_at_start,
                       raw_texts, df_citations, audit_no_citations, exceptAudit>>

\* steps 4+5, final.csv exists: nothing is done
SkipVerify ==
    /\ audit_pc = "verify"
    /\ ~step_is_due(files, "final.csv")
    /\ audit_pc' = "done"
    /\ reached' = reached \cup {audit_pc'}
    /\ UNCHANGED <<audit_runs, include_no_citations, files, files_at_start,
                   raw_texts, df_citations, audit_no_citations, df_match,
                   invoked, submitted, exceptAudit>>

\* steps 4+5: verify writes a row for the matched rows, less those the
\* model call fails for
Verify ==
    \E rows \in SUBSET df_match :
        /\ audit_pc = "verify"
        /\ step_is_due(files, "final.csv")
        /\ invoked' = invoked \cup {"verify"}
        /\ files' = [files EXCEPT !["final.csv"] = SavedFile(rows)]
        /\ audit_pc' = "done"
        /\ reached' = reached \cup {audit_pc'}
        /\ UNCHANGED <<audit_runs, include_no_citations, files_at_start,
                       raw_texts, df_citations, audit_no_citations, df_match,
                       submitted, exceptAudit>>

\* the step's file, for the steps that read or write one
FileOfStep ==
    [s \in {"citations", "no_citations", "web_verify", "match", "verify"} |->
        CASE s = "citations" -> "citations.csv"
          [] s = "no_citations" -> "no_citations.csv"
          [] s = "web_verify" -> "no_citations_web_final.csv"
          [] s = "match" -> "matched.csv"
          [] s = "verify" -> "final.csv"]

\* the function of a step raises before it saves its file, or read_csv
\* raises on the file that exists: the run ends, run_batch logs the error
StepRaises ==
    /\ audit_pc \in DOMAIN FileOfStep
    /\ \/ /\ step_is_due(files, FileOfStep[audit_pc])
          /\ invoked' = invoked \cup {StepFunction[FileOfStep[audit_pc]]}
       \/ /\ ~step_is_due(files, FileOfStep[audit_pc])
          /\ audit_pc \in {"citations", "no_citations", "match"}
          /\ invoked' = invoked
    /\ audit_pc' = "raised"
    /\ UNCHANGED <<audit_runs, include_no_citations, files, files_at_start,
                   raw_texts, df_citations, audit_no_citations, df_match,
                   reached, submitted, exceptAudit>>

\* process_single_json is called for the report again
StartRun ==
    /\ audit_pc \in {"done", "raised"}
    /\ audit_runs < MaxRuns
    /\ audit_runs' = audit_runs + 1
    /\ include_no_citations' \in BOOLEAN
    /\ files_at_start' = files
    /\ df_citations' = {}
    /\ audit_no_citations' = {}
    /\ df_match' = {}
    /\ invoked' = {}
    /\ audit_pc' = "citations"
    /\ reached' = {"citations"}
    /\ UNCHANGED <<files, raw_texts, submitted, exceptAudit>>

AuditNext ==
    \/ ReadCitations
    \/ ExtractCitations
    \/ ReadNoCitations
    \/ ExtractNoCitations
    \/ SkipWebVerify
    \/ WebVerify
    \/ ScrapeAll
    \/ ReadMatched
    \/ MatchSentences
    \/ SkipVerify
    \/ Verify
    \/ StepRaises
    \/ StartRun

(***************************************************************************)
(* metrics_calculator: calculate_file_metrics                              *)
(*                                                                         *)
(* A file of the report directory is absent, present but not readable as  *)
(* CSV, or readable with a number of rows; final.csv has a sum of its      *)
(* match column, no_citations_web_final.csv the numbers of its rows per    *)
(* final_decision.  A rate is the quotient num / den.                      *)
(***************************************************************************)

MaxFileRows == 1

\* the files read after citations.csv, in the order they are read
OptionalFiles ==
    <<"no_citations.csv", "matched.csv", "final.csv", "no_citations_web_final.csv">>

FileContent(state, rows, aligned, correct, incorrect) ==
    [state |-> state, rows |-> rows, aligned |-> aligned,
     correct |-> correct, incorrect |-> incorrect]

\* what a file of the directory can be
FileStates(f) ==
    {FileContent("absent", 0, 0, 0, 0), FileContent("unreadable", 0, 0, 0, 0)}
    \cup
    IF f = "final.csv"
    THEN {c \in {FileContent("readable", r, a, 0, 0) :
                    r \in 0..MaxFileRows, a \in 0..MaxFileRows} :
             c.aligned <= c.rows}
    ELSE IF f = "no_citations_web_final.csv"
    THEN {c \in {FileContent("readable", r, 0, x, y) :
                    r \in 0..MaxFileRows, x \in 0..MaxFileRows, y \in 0..MaxFileRows} :
             c.correct + c.incorrect <= c.rows}
    ELSE {FileContent("readable", r, 0, 0, 0) : r \in 0..MaxFileRows}

ZeroRate == [num |-> 0, den |-> 1]

\* the initial metrics record
InitialMetrics ==
    [returned |-> FALSE,
     total_citations |-> 0, total_no_citations |-> 0, total_statements |-> 0,
     matched_statements |-> 0, match_rate |-> ZeroRate,
     aligned_statements |-> 0, alignment_rate |-> ZeroRate,
     no_citations_correct |-> 0, no_citations_incorrect |-> 0,
     no_citations_tie |-> 0, no_citations_accuracy |-> ZeroRate,
     has_citations |-> FALSE, has_no_citations |-> FALSE, has_matched |-> FALSE,
     has_final |-> FALSE, has_no_citations_verification |-> FALSE,
     missing_files |-> <<>>]

\* pd.read_csv(f) returns a frame
reads(dir, f) == dir[f].state = "readable"

\* a missing_files list that leaves out the files that fail to be read
listed_missing_if_absent(dir, f) == dir[f].state = "absent"

\* missing_files.append(f): in the else branch of f.exists() and in the
\* except branch of the read
listed_missing(dir, f) == dir[f].state = "absent" \/ ~reads(dir, f)

\* n / d if d > 0, else the initial 0.0
RateOf(n, d) == IF d > 0 THEN [num |-> n, den |-> d] ELSE ZeroRate

\* the record calculate_file_metrics returns; returned is FALSE for None
calculate_file_metrics(dir) ==
    IF dir["citations.csv"].state = "absent" \/ ~reads(dir, "citations.csv")
    THEN InitialMetrics
    ELSE LET nc == dir["no_citations.csv"]
             ma == dir["matched.csv"]
             fi == dir["final.csv"]
             wf == dir["no_citations_web_final.csv"]
             total_citations == dir["citations.csv"].rows
             total_no_citations == IF reads(dir, "no_citations.csv") THEN nc.rows ELSE 0
         IN  [returned |-> TRUE,
              total_citations |-> total_citations,
              total_no_citations |-> total_no_citations,
              total_statements |-> total_citations + total_no_citations,
              matched_statements |-> IF reads(dir, "matched.csv") THEN ma.rows ELSE 0,
              match_rate |-> IF reads(dir, "matched.csv")
                             THEN RateOf(ma.rows, total_citations) ELSE ZeroRate,
              aligned_statements |-> IF reads(dir, "final.csv") THEN fi.aligned ELSE 0,
              alignment_rate |-> IF reads(dir, "final.csv")
                                 THEN RateOf(fi.aligned, fi.rows) ELSE ZeroRate,
              no_citations_correct |->
                  IF reads(dir, "no_citations_web_final.csv") THEN wf.correct ELSE 0,
              no_citations_incorrect |->
                  IF reads(dir, "no_citations_web_final.csv") THEN wf.incorrect ELSE 0,
              no_citations_tie |->
                  IF reads(dir, "no_citations_web_final.csv")
                  THEN wf.rows - wf.correct - wf.incorrect ELSE 0,
              no_citations_accuracy |->
                  IF reads(dir, "no_citations_web_final.csv")
                  THEN RateOf(wf.correct, wf.rows) ELSE ZeroRate,
              has_citations |-> TRUE,
              has_no_citations |-> reads(dir, "no_citations.csv"),
              has_matched |-> reads(dir, "matched.csv"),
              has_final |-> reads(dir, "final.csv"),
              has_no_citations_verification |-> reads(dir, "no_citations_web_final.csv"),
              missing_files |-> SelectSeq(OptionalFiles, LAMBDA f : listed_missing(dir, f))]

MetricsIdle ==
    /\ metrics_pc = "idle"
    /\ results_dir = [f \in StepFiles |-> FileContent("absent", 0, 0, 0, 0)]
    /\ metrics = InitialMetrics

\* a call for a report directory in any state
MetricsInit ==
    /\ metrics_pc = "called"
    /\ results_dir \in [StepFiles -> UNION {FileStates(f) : f \in StepFiles}]
    /\ \A f \in StepFiles : results_dir[f] \in FileStates(f)
    /\ metrics = InitialMetrics

\* citations.csv is absent or its read fails: return None
MetricsReturnsNone ==
    /\ metrics_pc = "called"
    /\ ~calculate_file_metrics(results_dir).returned
    /\ metrics' = calculate_file_metrics(results_dir)
    /\ metrics_pc' = "returned"
    /\ UNCHANGED <<results_dir, exceptMetrics>>

\* the metrics record is returned
MetricsReturned ==
    /\ metrics_pc = "called"
    /\ calculate_file_metrics(results_dir).returned
    /\ metrics' = calculate_file_metrics(results_dir)
    /\ metrics_pc' = "returned"
    /\ UNCHANGED <<results_dir, exceptMetrics>>

MetricsNext ==
    \/ MetricsReturnsNone
    \/ MetricsReturned

(***************************************************************************)
(* utils: WebLLMClient.generate                                            *)
(*                                                                         *)
(* A post ends with a response (status_code, text) or with an exception    *)
(* of requests (status_code 0, text its message).  Waits are in seconds.   *)
(* web_rate_limit_retries and web_error_retries count the sleeps of the    *)
(* two branches of the except block (history variables).                   *)
(***************************************************************************)

MaxPosts == 12

\* max_retries = 3
web_max_retries == 3

\* base_wait_time = 1.0
base_wait_time == 1

\* min(retry_count-1, 6)
MaxBackoffExponent == 6

\* the largest wait, 5 minutes
MaxWaitTime == 300

StatusCodes == {200, 429, 500}

\* "reach token limit", "Too Many Requests", "" and "timed out"
ReachTokenLimit == <<"r", "e", "a", "c", "h", " ", "t", "o", "k", "e", "n", " ", "l", "i", "m", "i", "t">>
TooManyRequests == <<"T", "o", "o", " ", "M", "a", "n", "y", " ", "R", "e", "q", "u", "e", "s", "t", "s">>
TimedOut == <<"t", "i", "m", "e", "d", " ", "o", "u", "t">>

ResponseTexts == {<<>>, ReachTokenLimit, TooManyRequests}

\* what requests.post can end with
PostOutcomes ==
    {[status_code |-> s, text |-> t] : s \in StatusCodes, t \in ResponseTexts}
    \cup {[status_code |-> 0, text |-> TimedOut]}

\* str(status_code)
StatusText(s) ==
    CASE s = 429 -> <<"4", "2", "9">>
      [] s = 500 -> <<"5", "0", "0">>
      [] s = 200 -> <<"2", "0", "0">>

\* str(e) of the exception the try block ends with
web_error_msg(outcome) ==
    IF outcome.status_code = 0 THEN outcome.text
    ELSE IF outcome.status_code = 429
    THEN <<"R", "a", "t", "e", " ", "l", "i", "m", "i", "t", " ", "e", "x", "c", "e", "e", "d", "e", "d", ":", " ">> \o outcome.text
    ELSE <<"H", "T", "T", "P", " ">> \o StatusText(outcome.status_code)
         \o <<":", " ">> \o outcome.text

\* is_rate_limit = 'reach token limit' in error_msg
web_is_rate_limit(outcome) == Contains(web_error_msg(outcome), ReachTokenLimit)

Min(a, b) == IF a <= b THEN a ELSE b

\* min(base_wait_time * (2 ** min(retry_count-1, 6)), 300)
rate_limit_wait(retries) ==
    Min(base_wait_time * (2 ^ Min(retries - 1, MaxBackoffExponent)), MaxWaitTime)

\* base_wait_time * retry_count
error_wait(retries) == base_wait_time * retries

NoOutcome == [status_code |-> 0, text |-> <<>>]

WebIdle ==
    /\ web_pc = "idle"
    /\ web_retry_count = 0
    /\ web_posts = 0
    /\ web_outcome = NoOutcome
    /\ web_wait_time = 0
    /\ web_rate_limit_retries = 0
    /\ web_error_retries = 0

\* generate(messages) is called
WebInit ==
    /\ web_pc = "post"
    /\ web_retry_count = 0
    /\ web_posts = 0
    /\ web_outcome = NoOutcome
    /\ web_wait_time = 0
    /\ web_rate_limit_retries = 0
    /\ web_error_retries = 0

\* status 200: the content of the reply is returned
PostReturns ==
    \E outcome \in {o \in PostOutcomes : o.status_code = 200} :
        /\ web_pc = "post"
        /\ web_posts' = web_posts + 1
        /\ web_outcome' = outcome
        /\ web_pc' = "returned"
        /\ UNCHANGED <<web_retry_count, web_wait_time, web_rate_limit_retries,
                       web_error_retries, exceptWeb>>

\* the error message holds 'reach token limit': wait and post again
PostRateLimited ==
    \E outcome \in {o \in PostOutcomes : o.status_code # 200} :
        /\ web_pc = "post"
        /\ web_posts + 1 < MaxPosts
        /\ web_is_rate_limit(outcome)
        /\ web_posts' = web_posts + 1
        /\ web_outcome' = outcome
        /\ web_retry_count' = web_retry_count + 1
        /\ web_wait_time' = rate_limit_wait(web_retry_count + 1)
        /\ web_rate_limit_retries' = web_rate_limit_retries + 1
        /\ UNCHANGED <<web_pc, web_error_retries, exceptWeb>>

\* another error with retry_count <= max_retries: wait and post again
PostErrorRetried ==
    \E outcome \in {o \in PostOutcomes : o.status_code # 200} :
        /\ web_pc = "post"
        /\ web_posts + 1 < MaxPosts
        /\ ~web_is_rate_limit(outcome)
        /\ web_retry_count + 1 <= web_max_retries
        /\ web_posts' = web_posts + 1
        /\ web_outcome' = outcome
        /\ web_retry_count' = web_retry_count + 1
        /\ web_wait_time' = error_wait(web_retry_count + 1)
        /\ web_error_retries' = web_error_retries + 1
        /\ UNCHANGED <<web_pc, web_rate_limit_retries, exceptWeb>>

\* another error with the retries used up: the exception goes to the caller
PostErrorRaised ==
    \E outcome \in {o \in PostOutcomes : o.status_code # 200} :
        /\ web_pc = "post"
        /\ ~web_is_rate_limit(outcome)
        /\ web_retry_count + 1 > web_max_retries
        /\ web_posts' = web_posts + 1
        /\ web_outcome' = outcome
        /\ web_retry_count' = web_retry_count + 1
        /\ web_pc' = "raised"
        /\ UNCHANGED <<web_wait_time, web_rate_limit_retries, web_error_retries,
                       exceptWeb>>

WebNext ==
    \/ PostReturns
    \/ PostRateLimited
    \/ PostErrorRetried
    \/ PostErrorRaised

(***************************************************************************)
(* gemini_processor: replace_superscripts_in_markdown, parse_gemini_article *)
(*                                                                         *)
(* Positions in a text are counted from 0 as in the code; -1 is "not       *)
(* found".  reference_mapping is given by the text it maps every           *)
(* data-turn-source-index to ("" when the index has no link).              *)
(***************************************************************************)

MaxMdLen == 3

MaxSuperscripts == 3

MdChars == {"1", "a", "b"}

\* ignore_chars ("u0060" is the backquote)
ignore_chars ==
    {"#", "*", "|", "-", "+", ">", "u0060", "=", "[", "]", "(", ")", "!", "~",
     " ", "\n", "\t", "0", "1", "2", "3", "4", "5", "6", "7", "8", "9"}

\* the data-turn-source-index, prev_text and next_text of a superscript
SubIndices == {<<"1">>}
PrevTexts == {<<"a">>, <<"a", "1", "1", "1">>}
NextTexts == {<<>>, <<"b">>}

\* reference_mapping.get(index, "")
FormattedUrls == {<<>>, <<"[", "1", "]", "(", "u", ")">>}

\* s.find(sub, start)
RECURSIVE Find(_, _, _)
Find(s, sub, start) ==
    IF start + Len(sub) > Len(s) THEN -1
    ELSE IF SubSeq(s, start + 1, start + Len(sub)) = sub THEN start
    ELSE Find(s, sub, start + 1)

\* the loop that compares prev_text backwards from md_text[i], prev_text[j]:
\* the j it ends with
RECURSIVE match_backwards(_, _, _, _)
match_backwards(md, prev, i, j) ==
    IF i < 0 \/ j < 0 THEN j
    ELSE IF md[i + 1] \in ignore_chars THEN match_backwards(md, prev, i - 1, j)
    ELSE IF prev[j + 1] \in ignore_chars THEN match_backwards(md, prev, i, j - 1)
    ELSE IF md[i + 1] # prev[j + 1] THEN j
    ELSE match_backwards(md, prev, i - 1, j - 1)

\* the loop that compares next_text forwards: the j it ends with
RECURSIVE match_forwards(_, _, _, _)
match_forwards(md, next, i, j) ==
    IF i >= Len(md) \/ j >= Len(next) THEN j
    ELSE IF md[i + 1] \in ignore_chars THEN match_forwards(md, next, i + 1, j)
    ELSE IF next[j + 1] \in ignore_chars THEN match_forwards(md, next, i, j + 1)
    ELSE IF md[i + 1] # next[j + 1] THEN j
    ELSE match_forwards(md, next, i + 1, j + 1)

mismatch_prev(md, item, index) ==
    match_backwards(md, item.prev_text, index - 1, Len(item.prev_text) - 1) >= 0

mismatch_next(md, item, index) ==
    match_forwards(md, item.next_text, index + Len(item.sub_index), 0)
        # Len(item.next_text)

\* a scan that keeps the start position after an attempt without match
start_after_no_match_kept(s) == Len(s)

\* start = 0 after an attempt that ends without an exact match
start_after_no_match(s) == 0

\* the while loop for one item, from search position start with
\* potential_index: the matched_index, whether it is an exact match, and
\* the start position for the next item
RECURSIVE scan_item(_, _, _, _)
scan_item(md, item, start, potential_index) ==
    LET index == Find(md, item.sub_index, start)
    IN  IF index = -1
        THEN [matched_index |-> potential_index, exact |-> FALSE,
              start |-> start_after_no_match(md)]
        ELSE IF ~mismatch_next(md, item, index) /\ ~mismatch_prev(md, item, index)
        THEN [matched_index |-> index, exact |-> TRUE,
              start |-> index + Len(item.sub_index)]
        ELSE IF \/ /\ mismatch_next(md, item, index)
                   /\ ~mismatch_prev(md, item, index)
                   /\ Len(item.prev_text) > 3
                \/ /\ mismatch_prev(md, item, index)
                   /\ ~mismatch_next(md, item, index)
                   /\ Len(item.next_text) > 3
        THEN scan_item(md, item, index + Len(item.sub_index), index)
        ELSE scan_item(md, item, index + Len(item.sub_index), potential_index)

\* the positions of the list in ascending order of matched_index
RECURSIVE sorted_ascending(_, _)
sorted_ascending(list, todo) ==
    IF todo = {} THEN <<>>
    ELSE LET first == CHOOSE k \in todo :
                 \A m \in todo \ {k} :
                     \/ list[k].matched_index < list[m].matched_index
                     \/ /\ list[k].matched_index = list[m].matched_index
                        /\ k < m
         IN  <<first>> \o sorted_ascending(list, todo \ {first})

\* sorted(superscript_list, key=matched_index, reverse=True): the positions
\* of the list in the order of the sorted list; equal keys keep their order
RECURSIVE sorted_descending(_, _)
sorted_descending(list, todo) ==
    IF todo = {} THEN <<>>
    ELSE LET first == CHOOSE k \in todo :
                 \A m \in todo \ {k} :
                     \/ list[k].matched_index > list[m].matched_index
                     \/ /\ list[k].matched_index = list[m].matched_index
                        /\ k < m
         IN  <<first>> \o sorted_descending(list, todo \ {first})

\* s.strip()
RECURSIVE Strip(_)
Strip(s) ==
    IF s = <<>> THEN s
    ELSE IF s[1] \in {" ", "\n", "\t"} THEN Strip(Tail(s))
    ELSE IF s[Len(s)] \in {" ", "\n", "\t"} THEN Strip(SubSeq(s, 1, Len(s) - 1))
    ELSE s

\* trans_md_text[:matched_index] + formatted_url
\*     + trans_md_text[matched_index + len(index):]
substitute(s, item, url) ==
    SubSeq(s, 1, item.matched_index) \o url
        \o SubSeq(s, item.matched_index + Len(item.sub_index) + 1, Len(s))

\* trans_md_text[matched_index:].startswith(index)
marker_found(s, item) ==
    StartsWith(SubSeq(s, item.matched_index + 1, Len(s)), item.sub_index)

GeminiIdle ==
    /\ gemini_pc = "idle"
    /\ gemini_md_text = <<>>
    /\ superscript_list = <<>>
    /\ formatted_url = <<>>
    /\ search_start = 0
    /\ scanned = 0
    /\ substitution_order = <<>>
    /\ substituted = 0
    /\ trans_md_text = <<>>
    /\ replaced_from = 0

\* parse_gemini_article with the markdown text, the superscripts of the
\* HTML and the link of the index
GeminiInit ==
    /\ gemini_pc = "match"
    /\ gemini_md_text \in SeqsUpTo(MdChars, MaxMdLen)
    /\ superscript_list \in
           SeqsUpTo({[sub_index |-> s, prev_text |-> p, next_text |-> n,
                      matched_index |-> -1, exact |-> FALSE] :
                        s \in SubIndices, p \in PrevTexts, n \in NextTexts},
                    MaxSuperscripts)
    /\ formatted_url \in FormattedUrls
    /\ search_start = 0
    /\ scanned = 0
    /\ substitution_order = <<>>
    /\ substituted = 0
    /\ trans_md_text = <<>>
    /\ replaced_from = 0

\* replace_superscripts_in_markdown, one item of `for item in data`
MatchSuperscript ==
    /\ gemini_pc = "match"
    /\ scanned < Len(superscript_list)
    /\ LET item == superscript_list[scanned + 1]
           found == scan_item(gemini_md_text, item, search_start, -1)
       IN  /\ superscript_list' =
                  [superscript_list EXCEPT ![scanned + 1] =
                      [item EXCEPT !.matched_index = found.matched_index,
                                   !.exact = found.exact]]
           /\ search_start' = found.start
    /\ scanned' = scanned + 1
    /\ UNCHANGED <<gemini_pc, gemini_md_text, formatted_url, substitution_order,
                   substituted, trans_md_text, replaced_from, exceptGemini>>

\* every item is matched: the list is sorted by matched_index, descending
SortSuperscripts ==
    /\ gemini_pc = "match"
    /\ scanned = Len(superscript_list)
    /\ substitution_order' =
           sorted_descending(superscript_list, 1..Len(superscript_list))
    /\ trans_md_text' = gemini_md_text
    /\ replaced_from' = Len(gemini_md_text)
    /\ gemini_pc' = "substitute"
    /\ UNCHANGED <<gemini_md_text, superscript_list, formatted_url, search_start,
                   scanned, substituted, exceptGemini>>

\* an item without match is passed over
SkipUnmatched ==
    /\ gemini_pc = "substitute"
    /\ substituted < Len(substitution_order)
    /\ superscript_list[substitution_order[substituted + 1]].matched_index = -1
    /\ substituted' = substituted + 1
    /\ UNCHANGED <<gemini_pc, gemini_md_text, superscript_list, formatted_url,
                   search_start, scanned, substitution_order, trans_md_text,
                   replaced_from, exceptGemini>>

\* the text at matched_index no longer starts with the index: mismatch_count
SkipMismatch ==
    /\ gemini_pc = "substitute"
    /\ substituted < Len(substitution_order)
    /\ superscript_list[substitution_order[substituted + 1]].matched_index # -1
    /\ ~marker_found(trans_md_text, superscript_list[substitution_order[substituted + 1]])
    /\ substituted' = substituted + 1
    /\ UNCHANGED <<gemini_pc, gemini_md_text, superscript_list, formatted_url,
                   search_start, scanned, substitution_order, trans_md_text,
                   replaced_from, exceptGemini>>

\* the index at matched_index is replaced by its link
SubstituteSuperscript ==
    /\ gemini_pc = "substitute"
    /\ substituted < Len(substitution_order)
    /\ superscript_list[substitution_order[substituted + 1]].matched_index # -1
    /\ marker_found(trans_md_text, superscript_list[substitution_order[substituted + 1]])
    /\ trans_md_text' =
           substitute(trans_md_text,
                      superscript_list[substitution_order[substituted + 1]],
                      formatted_url)
    /\ replaced_from' =
           superscript_list[substitution_order[substituted + 1]].matched_index
    /\ substituted' = substituted + 1
    /\ UNCHANGED <<gemini_pc, gemini_md_text, superscript_list, formatted_url,
                   search_start, scanned, substitution_order, exceptGemini>>

\* every item is done: the text is stripped and returned
GeminiReturns ==
    /\ gemini_pc = "substitute"
    /\ substituted = Len(substitution_order)
    /\ trans_md_text' = Strip(trans_md_text)
    /\ gemini_pc' = "returned"
    /\ UNCHANGED <<gemini_md_text, superscript_list, formatted_url, search_start,
                   scanned, substitution_order, substituted, replaced_from,
                   exceptGemini>>

GeminiNext ==
    \/ MatchSuperscript
    \/ SortSuperscripts
    \/ SkipUnmatched
    \/ SkipMismatch
    \/ SubstituteSuperscript
    \/ GeminiReturns

(***************************************************************************)
(* openai_processor.split_html_by_headers                                  *)
(*                                                                         *)
(* The HTML is a text made of a few pieces; positions are counted from 0.  *)
(***************************************************************************)

MaxPieces == 5

MaxChunkSize == 8

\* the pieces an HTML text is made of: heading tags in both cases, a tag
\* that is not a level 1-3 heading, a heading tag that is not closed, text
\* and blank
HtmlPieces ==
    {<<"<", "h", "1", ">">>, <<"<", "H", "2", ">">>, <<"<", "h", "4", ">">>,
     <<"<", "h", "3">>, <<"a">>, <<" ">>}

RECURSIVE ConcatAll(_)
ConcatAll(parts) ==
    IF parts = <<>> THEN <<>> ELSE Head(parts) \o ConcatAll(Tail(parts))

HtmlTexts == {ConcatAll(parts) : parts \in SeqsUpTo(HtmlPieces, MaxPieces)}

\* r'(<h[123][^>]*>)' with re.IGNORECASE matched at position p of s: the
\* position after the match, -1 when there is no match at p
header_match_end(s, p) ==
    IF /\ p + 3 <= Len(s)
       /\ s[p + 1] = "<"
       /\ s[p + 2] \in {"h", "H"}
       /\ s[p + 3] \in {"1", "2", "3"}
       /\ FindFrom(s, ">", p + 4) # 0
    THEN FindFrom(s, ">", p + 4)
    ELSE -1

\* [match.start() for match in re.finditer(header_pattern, html_content)]
\* from position p on
RECURSIVE header_starts(_, _)
header_starts(s, p) ==
    IF p >= Len(s) THEN <<>>
    ELSE IF header_match_end(s, p) # -1
    THEN <<p>> \o header_starts(s, header_match_end(s, p))
    ELSE header_starts(s, p + 1)

\* section_content of the i-th heading: from its tag to the next heading's
\* tag, or to the end of the text
section_content(s, starts, i) ==
    IF i < Len(starts)
    THEN SubSeq(s, starts[i] + 1, starts[i + 1])
    ELSE SubSeq(s, starts[i] + 1, Len(s))

\* the chunk in progress and the prefix before the first heading
prefix_content(s, starts) == SubSeq(s, 1, starts[1])

\* a split that never closes the chunk in progress before adding a section
starts_new_chunk_never(current_chunk, section, size) == FALSE

\* current_chunk and len(current_chunk + section_content) > max_chunk_size
starts_new_chunk(current_chunk, section, size) ==
    current_chunk # <<>> /\ Len(current_chunk \o section) > size

\* the loop over the headings from the i-th on, with the chunks so far and
\* the chunk in progress
RECURSIVE add_sections(_, _, _, _, _, _)
add_sections(s, starts, size, i, chunks, current_chunk) ==
    IF i > Len(starts) THEN [chunks |-> chunks, current_chunk |-> current_chunk]
    ELSE LET section == section_content(s, starts, i)
             closed == starts_new_chunk(current_chunk, section, size)
             chunks1 == IF closed THEN Append(chunks, current_chunk) ELSE chunks
             current1 == IF closed THEN section ELSE current_chunk \o section
         IN  IF Len(current1) > size
             THEN add_sections(s, starts, size, i + 1, Append(chunks1, current1), <<>>)
             ELSE add_sections(s, starts, size, i + 1, chunks1, current1)

\* [chunk for chunk in chunks if chunk.strip()]
RECURSIVE non_blank_chunks(_)
non_blank_chunks(chunks) ==
    IF chunks = <<>> THEN <<>>
    ELSE IF StripNonEmpty(Head(chunks))
    THEN <<Head(chunks)>> \o non_blank_chunks(Tail(chunks))
    ELSE non_blank_chunks(Tail(chunks))

\* the result for a text longer than size that has headings
split_by_headers(s, size) ==
    LET starts == header_starts(s, 0)
        prefix == prefix_content(s, starts)
        keep == starts[1] > 0 /\ StripNonEmpty(prefix)
        chunks0 == IF keep /\ Len(prefix) > size THEN <<prefix>> ELSE <<>>
        current0 == IF keep /\ Len(prefix) <= size THEN prefix ELSE <<>>
        done == add_sections(s, starts, size, 1, chunks0, current0)
    IN  non_blank_chunks(
            IF StripNonEmpty(done.current_chunk)
            THEN Append(done.chunks, done.current_chunk)
            ELSE done.chunks)

HtmlIdle ==
    /\ html_pc = "idle"
    /\ html_content = <<>>
    /\ max_chunk_size = 0
    /\ html_chunks = <<>>

HtmlInit ==
    /\ html_pc = "called"
    /\ html_content \in HtmlTexts
    /\ max_chunk_size \in 1..MaxChunkSize
    /\ html_chunks = <<>>

\* not html_content or len(html_content) <= max_chunk_size
HtmlShort ==
    /\ html_pc = "called"
    /\ html_content = <<>> \/ Len(html_content) <= max_chunk_size
    /\ html_chunks' = <<html_content>>
    /\ html_pc' = "whole"
    /\ UNCHANGED <<html_content, max_chunk_size, exceptHtml>>

\* not header_matches
HtmlNoHeaders ==
    /\ html_pc = "called"
    /\ html_content # <<>> /\ Len(html_content) > max_chunk_size
    /\ header_starts(html_content, 0) = <<>>
    /\ html_chunks' = <<html_content>>
    /\ html_pc' = "whole"
    /\ UNCHANGED <<html_content, max_chunk_size, exceptHtml>>

HtmlSplit ==
    /\ html_pc = "called"
    /\ html_content # <<>> /\ Len(html_content) > max_chunk_size
    /\ header_starts(html_content, 0) # <<>>
    /\ html_chunks' = split_by_headers(html_content, max_chunk_size)
    /\ html_pc' = "split"
    /\ UNCHANGED <<html_content, max_chunk_size, exceptHtml>>

HtmlNext == HtmlShort \/ HtmlNoHeaders \/ HtmlSplit

(***************************************************************************)
(* process/extract_reference_structured.extract_reference_structured       *)
(*                                                                         *)
(* The reference HTML is a sequence of nodes: links and texts.  str(soup)  *)
(* is the nodes' markup one after the other ("u0022" is the double quote); *)
(* positions are counted from 0.                                           *)
(***************************************************************************)

MaxNodes == 5

\* "全部来源" and "All Sources"
AllSourcesZh == <<"u5168", "u90E8", "u6765", "u6E90">>
AllSourcesEn ==
    <<"A", "l", "l", " ", "S", "o", "u", "r", "c", "e", "s">>

Hrefs == {<<"1">>, <<"2">>}

\* the nodes of a reference HTML: <a href=...> elements and text nodes
LinkNodes == {[tag |-> "a", href |-> h] : h \in Hrefs}
TextNodes == {[tag |-> "text", text |-> t] : t \in {AllSourcesZh, AllSourcesEn, <<"x">>}}
HtmlNodes == LinkNodes \cup TextNodes

\* str(node)
node_markup(node) ==
    IF node.tag = "a"
    THEN <<"<", "a", " ", "h", "r", "e", "f", "=", "u0022">> \o node.href
             \o <<"u0022", ">", "<", "/", "a", ">">>
    ELSE node.text

\* str(soup)
RECURSIVE soup_markup(_)
soup_markup(nodes) ==
    IF nodes = <<>> THEN <<>>
    ELSE node_markup(Head(nodes)) \o soup_markup(Tail(nodes))

\* soup.find_all('a', href=True)
RECURSIVE find_all_links(_)
find_all_links(nodes) ==
    IF nodes = <<>> THEN <<>>
    ELSE IF Head(nodes).tag = "a"
    THEN <<Head(nodes)>> \o find_all_links(Tail(nodes))
    ELSE find_all_links(Tail(nodes))

\* soup.find(string=re.compile(r'全部来源|All Sources')) finds a text node
has_source_element(nodes) ==
    \E k \in 1..Len(nodes) :
        /\ nodes[k].tag = "text"
        /\ Contains(nodes[k].text, AllSourcesZh) \/ Contains(nodes[k].text, AllSourcesEn)

\* html_str.find('全部来源'), or html_str.find('All Sources') when it is -1
source_position(html_str) ==
    IF Find(html_str, AllSourcesZh, 0) # -1
    THEN Find(html_str, AllSourcesZh, 0)
    ELSE Find(html_str, AllSourcesEn, 0)

\* str(soup).find(str(link))
link_position(html_str, link) == Find(html_str, node_markup(link), 0)

\* extract_detailed_reference_simple / extract_domain_info_simple: None
\* (here <<>>) for a link whose href is empty, else one entry
reference_entry(link, index) ==
    IF link.href = <<>> THEN <<>>
    ELSE <<[index |-> index, url |-> link.href]>>

\* the loop over all_links: k runs over the nodes, links only are classified
RECURSIVE classify_links(_, _, _, _)
classify_links(nodes, k, detailed_references, domain_summary) ==
    IF k > Len(nodes)
    THEN [none |-> FALSE,
          detailed_references |-> detailed_references,
          domain_summary |-> domain_summary]
    ELSE IF nodes[k].tag # "a"
    THEN classify_links(nodes, k + 1, detailed_references, domain_summary)
    ELSE IF link_position(soup_markup(nodes), nodes[k])
                < source_position(soup_markup(nodes))
    THEN classify_links(nodes, k + 1,
             detailed_references
                 \o reference_entry(nodes[k], Len(detailed_references) + 1),
             domain_summary)
    ELSE classify_links(nodes, k + 1,
             detailed_references,
             domain_summary \o reference_entry(nodes[k], Len(domain_summary) + 1))

NoReference == [none |-> TRUE, detailed_references |-> <<>>, domain_summary |-> <<>>]

ReferenceIdle ==
    /\ reference_pc = "idle"
    /\ reference_html = <<>>
    /\ reference_result = NoReference

ReferenceInit ==
    /\ reference_pc = "called"
    /\ reference_html \in SeqsUpTo(HtmlNodes, MaxNodes)
    /\ reference_result = NoReference

\* not reference_html
ReferenceEmpty ==
    /\ reference_pc = "called"
    /\ reference_html = <<>>
    /\ reference_result' = NoReference
    /\ reference_pc' = "returned"
    /\ UNCHANGED <<reference_html, exceptReference>>

\* not source_element
ReferenceNoMarker ==
    /\ reference_pc = "called"
    /\ reference_html # <<>>
    /\ ~has_source_element(reference_html)
    /\ reference_result' = NoReference
    /\ reference_pc' = "returned"
    /\ UNCHANGED <<reference_html, exceptReference>>

ReferenceSplit ==
    /\ reference_pc = "called"
    /\ reference_html # <<>>
    /\ has_source_element(reference_html)
    /\ reference_result' = classify_links(reference_html, 1, <<>>, <<>>)
    /\ reference_pc' = "returned"
    /\ UNCHANGED <<reference_html, exceptReference>>

ReferenceNext == ReferenceEmpty \/ ReferenceNoMarker \/ ReferenceSplit

(***************************************************************************)
(* related_work_evaluator: SurveyEvaluationWorkflow.evaluate_predictions   *)
(*                                                                         *)
(* precision, recall and f1_score are quotients num / den; the value 0 of  *)
(* the else branches is 0 / 1.                                             *)
(***************************************************************************)

MaxPapers == 2

\* titles as the papers carry them
RawTitles ==
    {<<>>, <<"a", " ", "b">>, <<"A", " ", " ", "b", ".">>,
     <<"c", " ", "d">>, <<"e", " ", "f">>, <<"!">>}

\* string.punctuation ("u0022" is the double quote, "u0060" the backquote,
\* "u005C" the backslash)
Punctuation ==
    {"!", "u0022", "#", "$", "%", "&", "'", "(", ")", "*", "+", ",",
     "-", ".", "/", ":", ";", "<", "=", ">", "?", "@", "[", "u005C",
     "]", "^", "_", "u0060", "{", "|", "}", "~"}

\* the characters str.split() splits at
SplitWhitespace == {" ", "\t", "\n", "\r"}

\* title.translate(str.maketrans('', '', string.punctuation))
remove_punctuation(s) == SelectSeq(s, LAMBDA c : c \notin Punctuation)

\* the length of the first word of s, which starts with a character that
\* is not whitespace
RECURSIVE word_length(_)
word_length(s) ==
    IF s = <<>> \/ Head(s) \in SplitWhitespace THEN 0
    ELSE 1 + word_length(Tail(s))

\* title.split()
RECURSIVE split_words(_)
split_words(s) ==
    IF s = <<>> THEN <<>>
    ELSE IF Head(s) \in SplitWhitespace THEN split_words(Tail(s))
    ELSE <<SubSeq(s, 1, word_length(s))>>
             \o split_words(SubSeq(s, word_length(s) + 1, Len(s)))

\* ' '.join(words)
RECURSIVE join_words(_)
join_words(words) ==
    IF words = <<>> THEN <<>>
    ELSE IF Len(words) = 1 THEN words[1]
    ELSE words[1] \o <<" ">> \o join_words(Tail(words))

normalize_title(title) ==
    IF title = <<>> THEN <<>>
    ELSE join_words(split_words(remove_punctuation(ToLower(title))))

PredictedPapers == [is_academic_paper : BOOLEAN, title : RawTitles]

GroundTruthPapers == [title : RawTitles]

\* the set predicted_titles
predicted_titles_of(papers) ==
    {normalize_title(papers[k].title) :
        k \in {m \in 1..Len(papers) :
                  /\ papers[m].is_academic_paper
                  /\ papers[m].title # <<>>
                  /\ normalize_title(papers[m].title) # <<>>}}

\* the set ground_truth_titles
ground_truth_titles_of(papers) ==
    {normalize_title(papers[k].title) :
        k \in {m \in 1..Len(papers) : normalize_title(papers[m].title) # <<>>}}

\* the mean of precision and recall
f1_as_mean(precision, recall) ==
    [num |-> precision.num * recall.den + recall.num * precision.den,
     den |-> 2 * precision.den * recall.den]

\* 2 * precision * recall / (precision + recall) if (precision + recall) > 0
\* else 0, for quotients with positive denominators
f1_of(precision, recall) ==
    IF precision.num * recall.den + recall.num * precision.den > 0
    THEN [num |-> 2 * precision.num * recall.num,
          den |-> precision.num * recall.den + recall.num * precision.den]
    ELSE ZeroRate

evaluation_of(predicted, ground_truth) ==
    LET predicted_titles == predicted_titles_of(predicted)
        ground_truth_titles == ground_truth_titles_of(ground_truth)
        intersection == predicted_titles \cap ground_truth_titles
        precision == IF predicted_titles # {}
                     THEN [num |-> Cardinality(intersection),
                           den |-> Cardinality(predicted_titles)]
                     ELSE ZeroRate
        recall == IF ground_truth_titles # {}
                  THEN [num |-> Cardinality(intersection),
                        den |-> Cardinality(ground_truth_titles)]
                  ELSE ZeroRate
    IN  [predicted_count |-> Cardinality(predicted_titles),
         ground_truth_count |-> Cardinality(ground_truth_titles),
         intersection_count |-> Cardinality(intersection),
         precision |-> precision,
         recall |-> recall,
         f1_score |-> f1_of(precision, recall),
         predicted_titles |-> predicted_titles,
         ground_truth_titles |-> ground_truth_titles,
         intersection_titles |-> intersection]

NoEvaluation ==
    [predicted_count |-> 0, ground_truth_count |-> 0, intersection_count |-> 0,
     precision |-> ZeroRate, recall |-> ZeroRate, f1_score |-> ZeroRate,
     predicted_titles |-> {}, ground_truth_titles |-> {},
     intersection_titles |-> {}]

EvaluateIdle ==
    /\ evaluate_pc = "idle"
    /\ predicted_papers = <<>>
    /\ ground_truth_papers = <<>>
    /\ evaluation = NoEvaluation

EvaluateInit ==
    /\ evaluate_pc = "called"
    /\ predicted_papers \in SeqsUpTo(PredictedPapers, MaxPapers)
    /\ ground_truth_papers \in SeqsUpTo(GroundTruthPapers, MaxPapers)
    /\ evaluation = NoEvaluation

EvaluatePredictions ==
    /\ evaluate_pc = "called"
    /\ evaluation' = evaluation_of(predicted_papers, ground_truth_papers)
    /\ evaluate_pc' = "returned"
    /\ UNCHANGED <<predicted_papers, ground_truth_papers, exceptEvaluate>>

EvaluateNext == EvaluatePredictions

(***************************************************************************)
(* metrics_calculator.calculate_batch_metrics                              *)
(*                                                                         *)
(* The report directories of the results directory are visited one after   *)
(* the other; a report's row of metrics is what calculate_file_metrics     *)
(* returns for the directory.                                              *)
(***************************************************************************)

MaxReports == 2

\* report directories whose files are all readable, and those without
\* citations.csv
CompleteDirs ==
    {dir \in [StepFiles -> UNION {FileStates(f) : f \in StepFiles}] :
        \A f \in StepFiles : dir[f] \in FileStates(f) /\ dir[f].state = "readable"}

DirsWithoutCitations ==
    {[dir EXCEPT !["citations.csv"] = FileContent("absent", 0, 0, 0, 0)] :
        dir \in {d \in CompleteDirs : \A f \in StepFiles : d[f].rows = 0}}

\* df_all_metrics[column].sum()
RECURSIVE column_sum(_, _)
column_sum(rows, column) ==
    IF rows = <<>> THEN 0
    ELSE Head(rows)[column] + column_sum(Tail(rows), column)

\* the sum of the quotients of a column
RECURSIVE rate_sum(_, _)
rate_sum(rows, column) ==
    IF rows = <<>> THEN ZeroRate
    ELSE LET a == Head(rows)[column]
             b == rate_sum(Tail(rows), column)
         IN  [num |-> a.num * b.den + b.num * a.den, den |-> a.den * b.den]

\* df_all_metrics[column].mean() of a column of quotients
column_mean(rows, column) ==
    [num |-> rate_sum(rows, column).num,
     den |-> rate_sum(rows, column).den * Len(rows)]

\* summary_metrics
summary_of(rows) ==
    [returned |-> TRUE,
     total_files |-> Len(rows),
     total_statements_sum |-> column_sum(rows, "total_statements"),
     total_citations_sum |-> column_sum(rows, "total_citations"),
     total_no_citations_sum |-> column_sum(rows, "total_no_citations"),
     matched_statements_sum |-> column_sum(rows, "matched_statements"),
     aligned_statements_sum |-> column_sum(rows, "aligned_statements"),
     no_citations_correct_sum |-> column_sum(rows, "no_citations_correct"),
     no_citations_incorrect_sum |-> column_sum(rows, "no_citations_incorrect"),
     avg_match_rate |-> column_mean(rows, "match_rate"),
     avg_alignment_rate |-> column_mean(rows, "alignment_rate"),
     avg_no_citations_accuracy |-> column_mean(rows, "no_citations_accuracy"),
     overall_match_rate |->
         RateOf(column_sum(rows, "matched_statements"),
                column_sum(rows, "total_citations")),
     overall_alignment_rate |->
         RateOf(column_sum(rows, "aligned_statements"),
                column_sum(rows, "matched_statements")),
     overall_no_citations_accuracy |->
         RateOf(column_sum(rows, "no_citations_correct"),
                column_sum(rows, "no_citations_correct")
                    + column_sum(rows, "no_citations_incorrect"))]

NoSummary ==
    [returned |-> FALSE,
     total_files |-> 0,
     total_statements_sum |-> 0, total_citations_sum |-> 0,
     total_no_citations_sum |-> 0, matched_statements_sum |-> 0,
     aligned_statements_sum |-> 0, no_citations_correct_sum |-> 0,
     no_citations_incorrect_sum |-> 0,
     avg_match_rate |-> ZeroRate, avg_alignment_rate |-> ZeroRate,
     avg_no_citations_accuracy |-> ZeroRate,
     overall_match_rate |-> ZeroRate, overall_alignment_rate |-> ZeroRate,
     overall_no_citations_accuracy |-> ZeroRate]

BatchIdle ==
    /\ batch_pc = "idle"
    /\ report_dirs = <<>>
    /\ all_metrics = <<>>
    /\ skipped_files = 0
    /\ summary_metrics = NoSummary

BatchInit ==
    /\ batch_pc = "iterating"
    /\ report_dirs = <<>>
    /\ all_metrics = <<>>
    /\ skipped_files = 0
    /\ summary_metrics = NoSummary

\* a report directory: its metrics are calculated, saved to metrics.csv and
\* read back
BatchReadsReport ==
    /\ batch_pc = "iterating"
    /\ Len(all_metrics) + skipped_files < MaxReports
    /\ \E dir \in CompleteDirs :
          /\ calculate_file_metrics(dir).returned
          /\ report_dirs' = Append(report_dirs, dir)
          /\ all_metrics' = Append(all_metrics, calculate_file_metrics(dir))
    /\ UNCHANGED <<batch_pc, skipped_files, summary_metrics, exceptBatch>>

\* a report directory for which calculate_file_metrics returns None
BatchSkipsReport ==
    /\ batch_pc = "iterating"
    /\ Len(all_metrics) + skipped_files < MaxReports
    /\ \E dir \in DirsWithoutCitations : ~calculate_file_metrics(dir).returned
    /\ skipped_files' = skipped_files + 1
    /\ UNCHANGED <<batch_pc, report_dirs, all_metrics, summary_metrics,
                   exceptBatch>>

\* not all_metrics: an empty frame is returned
BatchReturnsEmpty ==
    /\ batch_pc = "iterating"
    /\ all_metrics = <<>>
    /\ batch_pc' = "empty"
    /\ UNCHANGED <<report_dirs, all_metrics, skipped_files, summary_metrics,
                   exceptBatch>>

\* the summary is calculated and saved
BatchSummarizes ==
    /\ batch_pc = "iterating"
    /\ all_metrics # <<>>
    /\ summary_metrics' = summary_of(all_metrics)
    /\ batch_pc' = "returned"
    /\ UNCHANGED <<report_dirs, all_metrics, skipped_files, exceptBatch>>

BatchNext ==
    \/ BatchReadsReport
    \/ BatchSkipsReport
    \/ BatchReturnsEmpty
    \/ BatchSummarizes

(***************************************************************************)
(* statement/extract_citations.extract_citations_from_text and             *)
(* statement/extract_no_citations.extract_no_citations_from_text           *)
(*                                                                         *)
(* The statement of the k-th item the LLM returns for a block is written   *)
(* [block |-> b, item |-> k].  An item is well formed when it has the keys *)
(* the loop reads, with strings as values.                                 *)
(***************************************************************************)

MaxBlocks == 2

MaxItems == 3

MaxChunkRetries == 1

Extractors == {"citations", "no_citations"}

\* the URLs of the items: a://a and a://a/a
ItemUrls == {<<"a", ":", "/", "/", "a">>, <<"a", ":", "/", "/", "a", "/", "a">>}

\* the items of json.loads(post_processed)
LLMItems ==
    {[wellformed |-> TRUE, url |-> u] : u \in ItemUrls}
    \cup {[wellformed |-> FALSE, url |-> <<>>]}

\* `for item in data` from the k-th item on: the rows, the URL cache and the
\* statement counter it ends with, and whether it ended with an exception;
\* rids[k] is the identifier generate_random_id ends with for the k-th item
\* and fresh tells that every identifier used was not in the table
RECURSIVE extract_items(_, _, _, _, _, _, _, _, _)
extract_items(which, block, data, k, rows, cache, counter, rids, fresh) ==
    IF k > Len(data)
    THEN [rows |-> rows, cache |-> cache, counter |-> counter,
          raised |-> FALSE, fresh |-> fresh]
    ELSE IF ~data[k].wellformed
    THEN [rows |-> rows, cache |-> cache, counter |-> counter,
          raised |-> TRUE, fresh |-> fresh]
    ELSE IF which = "citations"
    THEN LET url == Strip(data[k].url)
             found == ExistingRows(cache, normalize_url(url)) # <<>>
             r == get_or_create_id_for_url(url, cache, rids[k])
         IN  extract_items(which, block, data, k + 1,
                 Append(rows, [ID |-> r.id,
                               statement |-> [block |-> block, item |-> k],
                               url |-> url]),
                 r.cache, counter, rids,
                 fresh /\ (found \/ rids[k] \in FreshIds(cache)))
    ELSE extract_items(which, block, data, k + 1,
             Append(rows, [ID |-> counter,
                           statement |-> [block |-> block, item |-> k],
                           url |-> <<>>]),
             cache, counter + 1, rids, fresh)

\* the identifiers generate_random_id ends with, one for each item; the
\* extraction without citations draws none
RandomIds(which) ==
    IF which = "citations" THEN [1..MaxItems -> IdSpace]
    ELSE {[k \in 1..MaxItems |-> 1]}

ExtractIdle ==
    /\ extract_pc = "idle"
    /\ extractor = "citations"
    /\ text_blocks = 0
    /\ block_index = 0
    /\ all_rows = <<>>
    /\ extract_cache = <<>>
    /\ statement_counter = 1
    /\ chunk_retries = 0
    /\ dropped_blocks = {}
    /\ out_csv = <<>>

\* the text is split into blocks; the URL cache is loaded without cache file
ExtractInit ==
    /\ extract_pc = "extracting"
    /\ extractor \in Extractors
    /\ text_blocks \in 1..MaxBlocks
    /\ block_index = 1
    /\ all_rows = <<>>
    /\ extract_cache = <<>>
    /\ statement_counter = 1
    /\ chunk_retries = 0
    /\ dropped_blocks = {}
    /\ out_csv = <<>>

\* the attempt raises an error with "reach token limit": the block is tried
\* again
ChunkRateLimited ==
    /\ extract_pc = "extracting"
    /\ block_index <= text_blocks
    /\ chunk_retries < MaxChunkRetries
    /\ chunk_retries' = chunk_retries + 1
    /\ UNCHANGED <<extract_pc, extractor, text_blocks, block_index, all_rows,
                   extract_cache, statement_counter, dropped_blocks, out_csv,
                   exceptExtract>>

\* chain.invoke or json.loads raises another error: no retry
ChunkRaises ==
    /\ extract_pc = "extracting"
    /\ block_index <= text_blocks
    /\ dropped_blocks' = dropped_blocks \cup {block_index}
    /\ block_index' = block_index + 1
    /\ chunk_retries' = 0
    /\ UNCHANGED <<extract_pc, extractor, text_blocks, all_rows, extract_cache,
                   statement_counter, out_csv, exceptExtract>>

\* the LLM returns a list of well-formed items
ChunkExtracted ==
    /\ extract_pc = "extracting"
    /\ block_index <= text_blocks
    /\ \E data \in SeqsUpTo(LLMItems, MaxItems) : \E rids \in RandomIds(extractor) :
          \E r \in {extract_items(extractor, block_index, data, 1, all_rows,
                                  extract_cache, statement_counter, rids, TRUE)} :
              /\ r.fresh
              /\ ~r.raised
              /\ all_rows' = r.rows
              /\ extract_cache' = r.cache
              /\ statement_counter' = r.counter
    /\ block_index' = block_index + 1
    /\ chunk_retries' = 0
    /\ UNCHANGED <<extract_pc, extractor, text_blocks, dropped_blocks, out_csv,
                   exceptExtract>>

\* the LLM returns a list with an item the loop cannot read: the loop raises
\* an error other than the rate limit, no retry
ChunkItemMalformed ==
    /\ extract_pc = "extracting"
    /\ block_index <= text_blocks
    /\ \E data \in SeqsUpTo(LLMItems, MaxItems) : \E rids \in RandomIds(extractor) :
          \E r \in {extract_items(extractor, block_index, data, 1, all_rows,
                                  extract_cache, statement_counter, rids, TRUE)} :
              /\ r.fresh
              /\ r.raised
              /\ all_rows' = r.rows
              /\ extract_cache' = r.cache
              /\ statement_counter' = r.counter
    /\ dropped_blocks' = dropped_blocks \cup {block_index}
    /\ block_index' = block_index + 1
    /\ chunk_retries' = 0
    /\ UNCHANGED <<extract_pc, extractor, text_blocks, out_csv, exceptExtract>>

\* every block is done: save_url_cache and save_csv(df, out_csv)
ExtractSaves ==
    /\ extract_pc = "extracting"
    /\ block_index > text_blocks
    /\ out_csv' = all_rows
    /\ extract_pc' = "saved"
    /\ UNCHANGED <<extractor, text_blocks, block_index, all_rows, extract_cache,
                   statement_counter, chunk_retries, dropped_blocks,
                   exceptExtract>>

ExtractNext ==
    \/ ChunkRateLimited
    \/ ChunkRaises
    \/ ChunkExtracted
    \/ ChunkItemMalformed
    \/ ExtractSaves

(***************************************************************************)
(* statement/scrape_content.scrape_all and                                 *)
(* related_work_evaluator: SurveyEvaluationWorkflow.fetch_url_contents     *)
(*                                                                         *)
(* A run is a series of calls that share the raw_texts directory and the   *)
(* URL cache file.  A loader decorated with retry_async(attempts=2) is     *)
(* given the outcomes of its attempts.                                     *)
(***************************************************************************)

MaxOperations == 2

MaxWork == 2

LoaderAttempts == 2

\* what a file of raw_texts holds
NoFile == "absent"
Contents == {"t1", "t2"}

\* an attempt of a loader raises, returns None or an empty text, or returns
\* a text
AttemptOutcomes == {"raises", "nothing"} \cup Contents

\* tenacity's retry with stop_after_attempt(attempts): the result of the
\* first attempt that does not raise, RetryError when every attempt raises
RECURSIVE retry_call(_, _, _)
retry_call(outcomes, k, attempts) ==
    IF k > attempts THEN "RetryError"
    ELSE IF outcomes[k] # "raises" THEN outcomes[k]
    ELSE retry_call(outcomes, k + 1, attempts)

\* what a loader decorated with retry_async(attempts=2) ends with
LoaderResults ==
    {retry_call(outcomes, 1, LoaderAttempts) :
        outcomes \in [1..LoaderAttempts -> AttemptOutcomes]}

\* _load_with_firecrawl(url): None without FIRECRAWL_API_KEY
load_with_firecrawl(api_key) ==
    IF ~api_key THEN {"nothing"} ELSE LoaderResults

\* _load_with_langchain(url)
load_with_langchain == LoaderResults

\* the try block of scrape_all for what the two loaders end with: the text,
\* and whether _load_with_langchain is called
scraped_text(first, second) ==
    IF first = "RetryError"
    THEN [text |-> "nothing", langchain_called |-> FALSE]
    ELSE IF first = "nothing"
    THEN [text |-> IF second = "RetryError" THEN "nothing" ELSE second,
          langchain_called |-> TRUE]
    ELSE [text |-> first, langchain_called |-> FALSE]

\* the try block around _load_with_firecrawl in fetch_url_contents
fetched_content(first) == IF first = "RetryError" THEN "nothing" ELSE first

\* a scrape_all that takes no file for cached
out_path_exists_never(dir, id) == FALSE

\* out_path.exists() in scrape_all
out_path_exists(dir, id) == dir[id] # NoFile

\* cache_file_path.exists() in fetch_url_contents
cache_file_path_exists(dir, id) == dir[id] # NoFile

\* the URL lists fetch_url_contents works on after _deduplicate_urls
UniqueUrls ==
    {urls \in SeqsUpTo(ItemUrls, MaxWork) :
        \A i, j \in 1..Len(urls) : i # j => urls[i] # urls[j]}

LogEntry(op, id, status, from_cache, langchain_called) ==
    [op |-> op, ID |-> id, status |-> status, from_cache |-> from_cache,
     langchain_called |-> langchain_called]

ScrapeIdle ==
    /\ scrape_pc = "idle"
    /\ operations = 0
    /\ firecrawl_api_key = FALSE
    /\ use_cache = TRUE
    /\ raw_texts_dir = [id \in IdSpace |-> NoFile]
    /\ url_cache_file = <<>>
    /\ fetch_url_cache = <<>>
    /\ work = <<>>
    /\ work_index = 0
    /\ scrape_log = <<>>

\* the start of a run: no raw text, no URL cache file
ScrapeInit ==
    /\ scrape_pc = "ready"
    /\ operations = 0
    /\ firecrawl_api_key \in BOOLEAN
    /\ use_cache = TRUE
    /\ raw_texts_dir = [id \in IdSpace |-> NoFile]
    /\ url_cache_file = <<>>
    /\ fetch_url_cache = <<>>
    /\ work = <<>>
    /\ work_index = 0
    /\ scrape_log = <<>>

\* scrape_all(df_citations): the IDs of the rows of df_citations
StartScrapeAll ==
    /\ scrape_pc = "ready"
    /\ operations < MaxOperations
    /\ work' \in SeqsUpTo(IdSpace, MaxWork)
    /\ work_index' = 1
    /\ scrape_log' = <<>>
    /\ scrape_pc' = "scrape_all"
    /\ UNCHANGED <<operations, firecrawl_api_key, use_cache, raw_texts_dir,
                   url_cache_file, fetch_url_cache, exceptScrape>>

\* the file of the row exists: the row is passed over
ScrapeSkipsCached ==
    /\ scrape_pc = "scrape_all"
    /\ work_index <= Len(work)
    /\ out_path_exists(raw_texts_dir, work[work_index])
    /\ scrape_log' = Append(scrape_log,
           LogEntry("scrape_all", work[work_index], "cached", TRUE, FALSE))
    /\ work_index' = work_index + 1
    /\ UNCHANGED <<scrape_pc, operations, firecrawl_api_key, use_cache,
                   raw_texts_dir, url_cache_file, fetch_url_cache, work,
                   exceptScrape>>

\* the loaders give a text: it is written to the file of the row
ScrapeWrites ==
    /\ scrape_pc = "scrape_all"
    /\ work_index <= Len(work)
    /\ ~out_path_exists(raw_texts_dir, work[work_index])
    /\ \E first \in load_with_firecrawl(firecrawl_api_key) :
          \E got \in {scraped_text(first, second) : second \in load_with_langchain} :
              /\ got.text # "nothing"
              /\ raw_texts_dir' =
                     [raw_texts_dir EXCEPT ![work[work_index]] = got.text]
              /\ scrape_log' = Append(scrape_log,
                     LogEntry("scrape_all", work[work_index], "success", FALSE,
                              got.langchain_called))
    /\ work_index' = work_index + 1
    /\ UNCHANGED <<scrape_pc, operations, firecrawl_api_key, use_cache,
                   url_cache_file, fetch_url_cache, work, exceptScrape>>

\* the loaders give no text: a warning, no file
ScrapeFails ==
    /\ scrape_pc = "scrape_all"
    /\ work_index <= Len(work)
    /\ ~out_path_exists(raw_texts_dir, work[work_index])
    /\ \E first \in load_with_firecrawl(firecrawl_api_key) :
          \E got \in {scraped_text(first, second) : second \in load_with_langchain} :
              /\ got.text = "nothing"
              /\ scrape_log' = Append(scrape_log,
                     LogEntry("scrape_all", work[work_index], "failed", FALSE,
                              got.langchain_called))
    /\ work_index' = work_index + 1
    /\ UNCHANGED <<scrape_pc, operations, firecrawl_api_key, use_cache,
                   raw_texts_dir, url_cache_file, fetch_url_cache, work,
                   exceptScrape>>

\* every row is done
ScrapeAllReturns ==
    /\ scrape_pc = "scrape_all"
    /\ work_index > Len(work)
    /\ scrape_pc' = "ready"
    /\ operations' = operations + 1
    /\ UNCHANGED <<firecrawl_api_key, use_cache, raw_texts_dir, url_cache_file,
                   fetch_url_cache, work, work_index, scrape_log, exceptScrape>>

\* fetch_url_contents(urls) of a workflow with or without use_cache: the URL
\* cache is loaded from its file
StartFetch ==
    /\ scrape_pc = "ready"
    /\ operations < MaxOperations
    /\ use_cache' \in BOOLEAN
    /\ work' \in UniqueUrls
    /\ work_index' = 1
    /\ fetch_url_cache' = url_cache_file
    /\ scrape_log' = <<>>
    /\ scrape_pc' = "fetch"
    /\ UNCHANGED <<operations, firecrawl_api_key, raw_texts_dir, url_cache_file,
                   exceptScrape>>

\* use_cache and the file of the URL's id exists: the file is read
FetchUsesCache ==
    /\ scrape_pc = "fetch"
    /\ work_index <= Len(work)
    /\ \E rid \in IdSpace :
          \E r \in {get_or_create_id_for_url(work[work_index], fetch_url_cache, rid)} :
              /\ \/ ExistingRows(fetch_url_cache, normalize_url(work[work_index])) # <<>>
                 \/ rid \in FreshIds(fetch_url_cache)
              /\ use_cache /\ cache_file_path_exists(raw_texts_dir, r.id)
              /\ fetch_url_cache' = r.cache
              /\ scrape_log' = Append(scrape_log,
                     LogEntry("fetch", r.id, "success", TRUE, FALSE))
    /\ work_index' = work_index + 1
    /\ UNCHANGED <<scrape_pc, operations, firecrawl_api_key, use_cache,
                   raw_texts_dir, url_cache_file, work, exceptScrape>>

\* the content is scraped and written to the file of the URL's id
FetchWrites ==
    /\ scrape_pc = "fetch"
    /\ work_index <= Len(work)
    /\ \E rid \in IdSpace : \E first \in load_with_firecrawl(firecrawl_api_key) :
          \E r \in {get_or_create_id_for_url(work[work_index], fetch_url_cache, rid)} :
              /\ \/ ExistingRows(fetch_url_cache, normalize_url(work[work_index])) # <<>>
                 \/ rid \in FreshIds(fetch_url_cache)
              /\ ~(use_cache /\ cache_file_path_exists(raw_texts_dir, r.id))
              /\ fetched_content(first) # "nothing"
              /\ fetch_url_cache' = r.cache
              /\ raw_texts_dir' =
                     [raw_texts_dir EXCEPT
                         ![r.id] = fetched_content(first)]
              /\ scrape_log' = Append(scrape_log,
                     LogEntry("fetch", r.id, "success", FALSE, FALSE))
    /\ work_index' = work_index + 1
    /\ UNCHANGED <<scrape_pc, operations, firecrawl_api_key, use_cache,
                   url_cache_file, work, exceptScrape>>

\* the scrape gives no content
FetchFails ==
    /\ scrape_pc = "fetch"
    /\ work_index <= Len(work)
    /\ \E rid \in IdSpace : \E first \in load_with_firecrawl(firecrawl_api_key) :
          \E r \in {get_or_create_id_for_url(work[work_index], fetch_url_cache, rid)} :
              /\ \/ ExistingRows(fetch_url_cache, normalize_url(work[work_index])) # <<>>
                 \/ rid \in FreshIds(fetch_url_cache)
              /\ ~(use_cache /\ cache_file_path_exists(raw_texts_dir, r.id))
              /\ fetched_content(first) = "nothing"
              /\ fetch_url_cache' = r.cache
              /\ scrape_log' = Append(scrape_log,
                     LogEntry("fetch", r.id, "failed", FALSE, FALSE))
    /\ work_index' = work_index + 1
    /\ UNCHANGED <<scrape_pc, operations, firecrawl_api_key, use_cache,
                   raw_texts_dir, url_cache_file, work, exceptScrape>>

\* every URL is done: save_url_cache(url_cache, self.cache_file)
FetchSaves ==
    /\ scrape_pc = "fetch"
    /\ work_index > Len(work)
    /\ url_cache_file' = fetch_url_cache
    /\ scrape_pc' = "ready"
    /\ operations' = operations + 1
    /\ UNCHANGED <<firecrawl_api_key, use_cache, raw_texts_dir, fetch_url_cache,
                   work, work_index, scrape_log, exceptScrape>>

ScrapeNext ==
    \/ StartScrapeAll
    \/ ScrapeSkipsCached
    \/ ScrapeWrites
    \/ ScrapeFails
    \/ ScrapeAllReturns
    \/ StartFetch
    \/ FetchUsesCache
    \/ FetchWrites
    \/ FetchFails
    \/ FetchSaves

(***************************************************************************)
(* infer/batch_infer: the prompt of a row (template handling)              *)
(*                                                                         *)
(* A template is the text load_template returns.  A row of the CSV is a    *)
(* function from its columns to the cells; NaN is the cell pandas reads     *)
(* for an empty field.  Field names are texts.                             *)
(***************************************************************************)

MaxTemplatePieces == 4

\* the columns of the CSV; prompt_column is "s"
CsvColumns == {<<"x">>, <<"s">>}

prompt_column == <<"s">>

\* the cell of a missing value, a text no file content equals
NaN == <<"NaN">>

TemplatePieces == {<<"{">>, <<"}">>, <<"a">>, <<"x">>, <<" ">>}

\* the texts of the template file
TemplateFiles == {ConcatAll(ps) : ps \in SeqsUpTo(TemplatePieces, MaxTemplatePieces)}

PromptCells == {NaN, <<" ">>, <<"q">>, <<" ", "q">>}

OtherCells == {NaN, <<"v">>, <<"v", " ">>}

\* the keyword of template.format(prompt=original_prompt)
PromptKeyword == <<"p", "r", "o", "m", "p", "t">>

\* re.findall(r'\{([^}]+)\}', template) from position i on, as a set
RECURSIVE extract_template_variables(_, _)
extract_template_variables(t, i) ==
    IF i > Len(t) THEN {}
    ELSE IF t[i] # "{" THEN extract_template_variables(t, i + 1)
    ELSE LET j == FindFrom(t, "}", i + 1)
         IN  IF j > i + 1
             THEN {SubSeq(t, i + 1, j - 1)} \cup extract_template_variables(t, j + 1)
             ELSE extract_template_variables(t, i + 1)

\* str.format: the "}" that closes the replacement field whose content
\* starts at i, nested braces counted; 0 when the text ends first
RECURSIVE field_end(_, _, _)
field_end(t, i, depth) ==
    IF i > Len(t) THEN 0
    ELSE IF t[i] = "{" THEN field_end(t, i + 1, depth + 1)
    ELSE IF t[i] = "}"
    THEN (IF depth = 1 THEN i ELSE field_end(t, i + 1, depth - 1))
    ELSE field_end(t, i + 1, depth)

\* str.format raised (ValueError, IndexError or KeyError)
FormatError == [ok |-> FALSE, text |-> <<>>]

\* the text s before the rest of a formatted result
format_prepend(s, rest) ==
    IF rest.ok THEN [ok |-> TRUE, text |-> s \o rest.text] ELSE rest

\* template.format(**values) from position i on: "{{" and "}}" are the
\* escaped braces, a single brace is a ValueError, an empty field name an
\* IndexError, a name that is no keyword a KeyError
RECURSIVE str_format(_, _, _)
str_format(t, i, values) ==
    IF i > Len(t) THEN [ok |-> TRUE, text |-> <<>>]
    ELSE IF t[i] = "}"
    THEN (IF i < Len(t) /\ t[i + 1] = "}"
          THEN format_prepend(<<"}">>, str_format(t, i + 2, values))
          ELSE FormatError)
    ELSE IF t[i] = "{"
    THEN (IF i = Len(t) THEN FormatError
          ELSE IF t[i + 1] = "{"
          THEN format_prepend(<<"{">>, str_format(t, i + 2, values))
          ELSE LET j == field_end(t, i + 1, 1)
               IN  IF j = 0 THEN FormatError
                   ELSE IF SubSeq(t, i + 1, j - 1) \notin DOMAIN values
                   THEN FormatError
                   ELSE format_prepend(values[SubSeq(t, i + 1, j - 1)],
                                       str_format(t, j + 1, values)))
    ELSE format_prepend(<<t[i]>>, str_format(t, i + 1, values))

\* value = row.get(col, ''); '' if pd.isna(value); str(value).strip()
template_value(row, col) ==
    IF col \notin DOMAIN row THEN <<>>
    ELSE IF row[col] = NaN THEN <<>>
    ELSE Strip(row[col])

\* template_values of apply_template_with_mapping
template_values(mapping, row) ==
    [var \in DOMAIN mapping |-> template_value(row, mapping[var])]

\* apply_template_with_mapping: the formatted template, or the template
\* itself when format raises
apply_template_with_mapping(t, mapping, row, original) ==
    LET formatted == str_format(t, 1, template_values(mapping, row))
    IN  IF formatted.ok THEN formatted.text ELSE t

\* apply_template: template.format(prompt=original_prompt), or the original
\* prompt when format raises
apply_template(original, t) ==
    LET formatted == str_format(t, 1, [k \in {PromptKeyword} |-> original])
    IN  IF formatted.ok THEN formatted.text ELSE original

\* pd.isna(prompt) or not str(prompt).strip()
prompt_is_empty(cell) == cell = NaN \/ Strip(cell) = <<>>

\* build_column_mapping: the column of the same name, else the column the
\* user enters
ColumnMappings(variables) ==
    {m \in [variables -> CsvColumns] : \A var \in variables : var \in CsvColumns => m[var] = var}

NoMapping == [var \in {} |-> <<>>]

TemplateIdle ==
    /\ template_pc = "idle"
    /\ template_path = FALSE
    /\ template_file = <<>>
    /\ template = <<>>
    /\ column_mapping = NoMapping
    /\ csv_row = [c \in CsvColumns |-> NaN]
    /\ original_prompt = <<>>
    /\ prompt = <<>>

\* a call of batch_infer_parallel with or without --template, and a row
TemplateInit ==
    /\ template_pc = "load"
    /\ template_path \in BOOLEAN
    /\ template_file \in TemplateFiles
    /\ ~template_path => template_file = <<>>
    /\ template = <<>>
    /\ column_mapping = NoMapping
    /\ csv_row \in {[c \in CsvColumns |-> IF c = prompt_column THEN p ELSE v] :
                        p \in PromptCells, v \in OtherCells}
    /\ original_prompt = <<>>
    /\ prompt = <<>>

\* template_path is None: template = None, column_mapping = {}
NoTemplate ==
    /\ template_pc = "load"
    /\ ~template_path
    /\ template_pc' = "row"
    /\ UNCHANGED <<template_path, template_file, template, column_mapping,
                   csv_row, original_prompt, prompt, exceptTemplate>>

\* load_template (f.read().strip()), extract_template_variables and, when
\* there are variables, build_column_mapping
LoadTemplate ==
    /\ template_pc = "load"
    /\ template_path
    /\ template' = Strip(template_file)
    /\ column_mapping' \in ColumnMappings(extract_template_variables(Strip(template_file), 1))
    /\ template_pc' = "row"
    /\ UNCHANGED <<template_path, template_file, csv_row, original_prompt,
                   prompt, exceptTemplate>>

\* the prompt of the row is empty: the row is skipped
RowSkipped ==
    /\ template_pc = "row"
    /\ prompt_is_empty(csv_row[prompt_column])
    /\ template_pc' = "skipped"
    /\ UNCHANGED <<template_path, template_file, template, column_mapping,
                   csv_row, original_prompt, prompt, exceptTemplate>>

\* no template (or an empty one): the prompt is the stripped cell
RowWithoutTemplate ==
    /\ template_pc = "row"
    /\ ~prompt_is_empty(csv_row[prompt_column])
    /\ template = <<>>
    /\ original_prompt' = Strip(csv_row[prompt_column])
    /\ prompt' = Strip(csv_row[prompt_column])
    /\ template_pc' = "prepared"
    /\ UNCHANGED <<template_path, template_file, template, column_mapping,
                   csv_row, exceptTemplate>>

\* template and column_mapping: apply_template_with_mapping
RowWithMapping ==
    /\ template_pc = "row"
    /\ ~prompt_is_empty(csv_row[prompt_column])
    /\ template # <<>>
    /\ DOMAIN column_mapping # {}
    /\ original_prompt' = Strip(csv_row[prompt_column])
    /\ prompt' = apply_template_with_mapping(template, column_mapping, csv_row,
                                             Strip(csv_row[prompt_column]))
    /\ template_pc' = "prepared"
    /\ UNCHANGED <<template_path, template_file, template, column_mapping,
                   csv_row, exceptTemplate>>

\* template without column_mapping: apply_template
RowWithPromptTemplate ==
    /\ template_pc = "row"
    /\ ~prompt_is_empty(csv_row[prompt_column])
    /\ template # <<>>
    /\ DOMAIN column_mapping = {}
    /\ original_prompt' = Strip(csv_row[prompt_column])
    /\ prompt' = apply_template(Strip(csv_row[prompt_column]), template)
    /\ template_pc' = "prepared"
    /\ UNCHANGED <<template_path, template_file, template, column_mapping,
                   csv_row, exceptTemplate>>

TemplateNext ==
    \/ NoTemplate
    \/ LoadTemplate
    \/ RowSkipped
    \/ RowWithoutTemplate
    \/ RowWithMapping
    \/ RowWithPromptTemplate

(***************************************************************************)
(* openai_processor: convert_html_to_markdown_string, from the chunks on   *)
(*                                                                         *)
(* chunks is [processed_html] or the non-blank chunks of                   *)
(* split_html_by_headers.  A future is the state of process_chunk for a    *)
(* chunk and what it returned.  The texts hold no code fence, link or      *)
(* table, so that clean_markdown_block and fix_common_markdown_issues       *)
(* reduce to their whitespace rules.                                       *)
(***************************************************************************)

MaxConvertChunks == 3

ConvertChunkTexts == {<<"a">>, <<" ", "b">>, <<"c", "\n">>}

\* response.content of llm.invoke
LLMReplies == {<<"x">>, <<" ">>, <<"x", " ">>, <<"y", "\n", "\n", "\n", "y">>}

\* an entry of [None] * len(chunks)
NoneChunk == <<"None">>

PendingFuture == [state |-> "pending", result |-> NoneChunk]

\* clean_markdown_block of a text without code fence: content.strip()
clean_markdown_block(content) ==
    IF content = <<>> THEN content ELSE Strip(content)

\* process_chunk when llm.invoke returns: response.content.strip(), cleaned
converted_chunk(reply) == clean_markdown_block(Strip(reply))

\* a collection that fills the list in the order of completion
store_result_in_completion_order(list, i, result) ==
    [list EXCEPT ![CHOOSE k \in 1..Len(list) :
                      /\ list[k] = NoneChunk
                      /\ \A m \in 1..(k - 1) : list[m] # NoneChunk] = result]

\* markdown_chunks[i-1] = result
store_result(list, i, result) == [list EXCEPT ![i] = result]

\* [chunk.strip() for chunk in markdown_chunks if chunk and chunk.strip()]
RECURSIVE cleaned_chunks(_)
cleaned_chunks(list) ==
    IF list = <<>> THEN <<>>
    ELSE IF Strip(Head(list)) # <<>>
    THEN <<Strip(Head(list))>> \o cleaned_chunks(Tail(list))
    ELSE cleaned_chunks(Tail(list))

\* '\n\n'.join(parts)
RECURSIVE join_paragraphs(_)
join_paragraphs(parts) ==
    IF parts = <<>> THEN <<>>
    ELSE IF Len(parts) = 1 THEN Head(parts)
    ELSE Head(parts) \o <<"\n", "\n">> \o join_paragraphs(Tail(parts))

\* the length of the run of "\n" that starts at position i
RECURSIVE newline_run(_, _)
newline_run(s, i) ==
    IF i > Len(s) \/ s[i] # "\n" THEN 0 ELSE 1 + newline_run(s, i + 1)

\* re.sub(r'\n{3,}', '\n\n', markdown_content) from position i on
RECURSIVE collapse_blank_lines(_, _)
collapse_blank_lines(s, i) ==
    IF i > Len(s) THEN <<>>
    ELSE IF newline_run(s, i) >= 3
    THEN <<"\n", "\n">> \o collapse_blank_lines(s, i + newline_run(s, i))
    ELSE IF newline_run(s, i) > 0
    THEN SubSeq(s, i, i + newline_run(s, i) - 1)
         \o collapse_blank_lines(s, i + newline_run(s, i))
    ELSE <<s[i]>> \o collapse_blank_lines(s, i + 1)

\* fix_common_markdown_issues of a text without link or table
fix_common_markdown_issues(markdown) == collapse_blank_lines(markdown, 1)

\* the text returned once every future is collected
joined_markdown(list) ==
    fix_common_markdown_issues(join_paragraphs(cleaned_chunks(list)))

ConvertIdle ==
    /\ convert_pc = "idle"
    /\ convert_chunks = <<>>
    /\ chunk_futures = <<>>
    /\ markdown_chunks = <<>>
    /\ markdown_content = <<>>

\* the chunks are made and every process_chunk is submitted
ConvertInit ==
    /\ convert_pc = "collect"
    /\ convert_chunks \in SeqsUpTo(ConvertChunkTexts, MaxConvertChunks) \ {<<>>}
    /\ chunk_futures = [i \in 1..Len(convert_chunks) |-> PendingFuture]
    /\ markdown_chunks = [i \in 1..Len(convert_chunks) |-> NoneChunk]
    /\ markdown_content = <<>>

\* process_chunk(i, chunk): llm.invoke returns and the reply is cleaned
ChunkConverted ==
    \E i \in 1..Len(convert_chunks), reply \in LLMReplies :
        /\ convert_pc = "collect"
        /\ chunk_futures[i].state = "pending"
        /\ chunk_futures' = [chunk_futures EXCEPT
               ![i] = [state |-> "returned", result |-> converted_chunk(reply)]]
        /\ UNCHANGED <<convert_pc, convert_chunks, markdown_chunks,
                       markdown_content, exceptConvert>>

\* process_chunk(i, chunk): llm.invoke raises, the chunk is returned
ChunkConversionFailed ==
    \E i \in 1..Len(convert_chunks) :
        /\ convert_pc = "collect"
        /\ chunk_futures[i].state = "pending"
        /\ chunk_futures' = [chunk_futures EXCEPT
               ![i] = [state |-> "returned", result |-> convert_chunks[i]]]
        /\ UNCHANGED <<convert_pc, convert_chunks, markdown_chunks,
                       markdown_content, exceptConvert>>

\* process_chunk raises outside its try block
ChunkWorkerRaised ==
    \E i \in 1..Len(convert_chunks) :
        /\ convert_pc = "collect"
        /\ chunk_futures[i].state = "pending"
        /\ chunk_futures' = [chunk_futures EXCEPT
               ![i] = [state |-> "raised", result |-> NoneChunk]]
        /\ UNCHANGED <<convert_pc, convert_chunks, markdown_chunks,
                       markdown_content, exceptConvert>>

\* as_completed yields a finished future: its result, or the chunk when
\* future.result() raises, is stored at its index
CollectChunk ==
    \E i \in 1..Len(convert_chunks) :
        /\ convert_pc = "collect"
        /\ chunk_futures[i].state \in {"returned", "raised"}
        /\ markdown_chunks' = store_result(markdown_chunks, i,
               IF chunk_futures[i].state = "returned"
               THEN chunk_futures[i].result ELSE convert_chunks[i])
        /\ chunk_futures' = [chunk_futures EXCEPT ![i].state =
               IF @ = "returned" THEN "collected" ELSE "collected_raised"]
        /\ UNCHANGED <<convert_pc, convert_chunks, markdown_content,
                       exceptConvert>>

\* every future is collected: the chunks are cleaned, joined and fixed
ConvertReturns ==
    /\ convert_pc = "collect"
    /\ \A i \in 1..Len(convert_chunks) :
           chunk_futures[i].state \in {"collected", "collected_raised"}
    /\ markdown_content' = joined_markdown(markdown_chunks)
    /\ convert_pc' = "returned"
    /\ UNCHANGED <<convert_chunks, chunk_futures, markdown_chunks,
                   exceptConvert>>

ConvertNext ==
    \/ ChunkConverted
    \/ ChunkConversionFailed
    \/ ChunkWorkerRaised
    \/ CollectChunk
    \/ ConvertReturns

(***************************************************************************)
(* cache_utils, extract_citations: two executions on one cache file        *)
(*                                                                         *)
(* An execution is get_url_id_with_cache or extract_citations_from_text:   *)
(* load_or_create_url_cache, then calls of get_or_create_id_for_url on the *)
(* table in memory, then save_url_cache.  The steps of the two executions  *)
(* interleave; nothing in the code locks the file.                         *)
(***************************************************************************)

MaxRunCalls == 2

Executions == {1, 2}

\* a://a/a  a://a/a?a  a://a
SharedUrls == {
    <<"a", ":", "/", "/", "a", "/", "a">>,
    <<"a", ":", "/", "/", "a", "/", "a", "?", "a">>,
    <<"a", ":", "/", "/", "a">>
}

\* a save that keeps the rows the file holds and adds those it lacks
save_url_cache_merging(cache, file) ==
    file \o SelectSeq(cache, LAMBDA r :
                ExistingRows(file, r.normalized_url) = <<>>)

\* save_url_cache: url_cache.to_csv(cache_file) replaces the file
save_url_cache(cache, file) == cache

\* pd.read_csv(cache_file), or the empty table when there is no file (the
\* file without rows)
load_or_create_url_cache(file) == file

SharedIdle ==
    /\ shared_cache_file = <<>>
    /\ run_pc = [p \in Executions |-> "idle"]
    /\ run_cache = [p \in Executions |-> <<>>]
    /\ run_calls = [p \in Executions |-> <<>>]
    /\ save_order = <<>>

\* two executions start on a cache file without rows
SharedInit ==
    /\ shared_cache_file = <<>>
    /\ run_pc = [p \in Executions |-> "start"]
    /\ run_cache = [p \in Executions |-> <<>>]
    /\ run_calls = [p \in Executions |-> <<>>]
    /\ save_order = <<>>

\* url_cache = load_or_create_url_cache(cache_file)
RunLoads ==
    \E p \in Executions :
        /\ run_pc[p] = "start"
        /\ run_cache' = [run_cache EXCEPT ![p] = load_or_create_url_cache(shared_cache_file)]
        /\ run_pc' = [run_pc EXCEPT ![p] = "loaded"]
        /\ UNCHANGED <<shared_cache_file, run_calls, save_order, exceptShared>>

\* random_id, url_cache = get_or_create_id_for_url(url, url_cache)
RunGetsOrCreatesId ==
    \E p \in Executions, url \in SharedUrls :
        /\ run_pc[p] = "loaded"
        /\ Len(run_calls[p]) < MaxRunCalls
        /\ Len(run_cache[p]) < MaxRows
        /\ \E rid \in FreshIds(run_cache[p]) :
              \E r \in {get_or_create_id_for_url(url, run_cache[p], rid)} :
                  /\ run_cache' = [run_cache EXCEPT ![p] = r.cache]
                  /\ run_calls' = [run_calls EXCEPT ![p] =
                         Append(@, [normalized_url |-> normalize_url(url),
                                    random_id |-> r.id,
                                    created |-> r.cache # run_cache[p]])]
        /\ UNCHANGED <<shared_cache_file, run_pc, save_order, exceptShared>>

\* save_url_cache(url_cache, cache_file)
RunSaves ==
    \E p \in Executions :
        /\ run_pc[p] = "loaded"
        /\ run_calls[p] # <<>>
        /\ shared_cache_file' = save_url_cache(run_cache[p], shared_cache_file)
        /\ run_pc' = [run_pc EXCEPT ![p] = "saved"]
        /\ save_order' = Append(save_order, p)
        /\ UNCHANGED <<run_cache, run_calls, exceptShared>>

SharedNext ==
    \/ RunLoads
    \/ RunGetsOrCreatesId
    \/ RunSaves

(***************************************************************************)
(* gemini_processor: replace_superscripts_in_markdown, one iteration of    *)
(* `while True` per step                                                   *)
(*                                                                         *)
(* data-turn-source-index is '' for a sup element without the attribute.   *)
(* scan_tick changes with every iteration of the while loop.               *)
(***************************************************************************)

MaxScanItems == 2

\* node.get('data-turn-source-index', '')
ScanSubIndices == {<<>>, <<"1">>}

ScanItems ==
    {[sub_index |-> s, prev_text |-> p, next_text |-> n] :
        s \in ScanSubIndices, p \in PrevTexts, n \in NextTexts}

\* the item of the for loop
current_item == scan_data[scan_position]

\* index = md_text.find(sub_index, start)
current_index == Find(scan_md_text, current_item.sub_index, scan_start)

ScanIdle ==
    /\ scan_pc = "idle"
    /\ scan_md_text = <<>>
    /\ scan_data = <<>>
    /\ scan_position = 0
    /\ scan_start = 0
    /\ scan_potential_index = -1
    /\ matched_indices = <<>>
    /\ scan_tick = FALSE

\* replace_superscripts_in_markdown(md_text, data) is called
ScanInit ==
    /\ scan_pc = "scan"
    /\ scan_md_text \in SeqsUpTo(MdChars, MaxMdLen)
    /\ scan_data \in SeqsUpTo(ScanItems, MaxScanItems)
    /\ scan_position = 1
    /\ scan_start = 0
    /\ scan_potential_index = -1
    /\ matched_indices = <<>>
    /\ scan_tick = FALSE

\* index == -1: matched_index is potential_index, start = 0, break
ScanEndsWithoutExactMatch ==
    /\ scan_pc = "scan"
    /\ scan_position <= Len(scan_data)
    /\ current_index = -1
    /\ matched_indices' = Append(matched_indices, scan_potential_index)
    /\ scan_start' = start_after_no_match(scan_md_text)
    /\ scan_potential_index' = -1
    /\ scan_position' = scan_position + 1
    /\ scan_tick' = ~scan_tick
    /\ UNCHANGED <<scan_pc, scan_md_text, scan_data, exceptScan>>

\* both contexts match: matched_index = index, start behind it, break
ScanMatches ==
    /\ scan_pc = "scan"
    /\ scan_position <= Len(scan_data)
    /\ current_index # -1
    /\ ~mismatch_next(scan_md_text, current_item, current_index)
    /\ ~mismatch_prev(scan_md_text, current_item, current_index)
    /\ matched_indices' = Append(matched_indices, current_index)
    /\ scan_start' = current_index + Len(current_item.sub_index)
    /\ scan_potential_index' = -1
    /\ scan_position' = scan_position + 1
    /\ scan_tick' = ~scan_tick
    /\ UNCHANGED <<scan_pc, scan_md_text, scan_data, exceptScan>>

\* a context does not match: start = index + len(sub_index), perhaps a
\* potential_index, and the while loop goes on
ScanGoesOn ==
    /\ scan_pc = "scan"
    /\ scan_position <= Len(scan_data)
    /\ current_index # -1
    /\ \/ mismatch_next(scan_md_text, current_item, current_index)
       \/ mismatch_prev(scan_md_text, current_item, current_index)
    /\ scan_start' = current_index + Len(current_item.sub_index)
    /\ scan_potential_index' =
           IF \/ /\ mismatch_next(scan_md_text, current_item, current_index)
                 /\ ~mismatch_prev(scan_md_text, current_item, current_index)
                 /\ Len(current_item.prev_text) > 3
              \/ /\ mismatch_prev(scan_md_text, current_item, current_index)
                 /\ ~mismatch_next(scan_md_text, current_item, current_index)
                 /\ Len(current_item.next_text) > 3
           THEN current_index ELSE scan_potential_index
    /\ scan_tick' = ~scan_tick
    /\ UNCHANGED <<scan_pc, scan_md_text, scan_data, scan_position,
                   matched_indices, exceptScan>>

\* the for loop is over: return data
ScanReturns ==
    /\ scan_pc = "scan"
    /\ scan_position > Len(scan_data)
    /\ scan_pc' = "returned"
    /\ UNCHANGED <<scan_md_text, scan_data, scan_position, scan_start,
                   scan_potential_index, matched_indices, scan_tick, exceptScan>>

ScanNext ==
    \/ ScanEndsWithoutExactMatch
    \/ ScanMatches
    \/ ScanGoesOn
    \/ ScanReturns

(***************************************************************************)
(* openai_processor: process_all_files, process_single_file                *)
(*                                                                         *)
(* The input directory holds JSON files; each is handed to a worker of the *)
(* thread pool, which writes parsed_<basename>.json on success, and the    *)
(* main thread collects the futures as they complete.  The modelled files  *)
(* carry an empty activity field and an empty answer, so steps 2 and 3 of  *)
(* process_single_file take their default branches.                        *)
(***************************************************************************)

MaxFiles == 3

\* the names os.listdir can return, in the order json_files.sort() gives
BaseNames == <<"a", "b", "c", "d">>

input_dir == <<"o", "p", "e", "n", "a", "i">>
output_dir == <<"r", "e", "s", "u", "l", "t">>
JsonExt == <<".", "j", "s", "o", "n">>

\* os.path.join(directory, file_name)
path_join(directory, file_name) == directory \o <<"/">> \o file_name

\* the reference fields of the input files
ReferenceHtmls ==
    {<<>>,
     <<[tag |-> "a", href |-> <<"1">>]>>,
     <<[tag |-> "text", text |-> <<"x">>]>>,
     <<[tag |-> "a", href |-> <<"1">>], [tag |-> "text", text |-> AllSourcesZh]>>,
     <<[tag |-> "text", text |-> AllSourcesEn], [tag |-> "a", href |-> <<"2">>]>>}

\* what an input file holds: json.load fails on an unreadable one
FileContents ==
    {[readable |-> FALSE, reference |-> <<>>]}
        \cup {[readable |-> TRUE, reference |-> r] : r \in ReferenceHtmls}

\* json_files after json_files.sort(): the listed names in increasing order
RECURSIVE listed_json_files(_, _)
listed_json_files(listing, k) ==
    IF k > Len(BaseNames) THEN <<>>
    ELSE IF k \in listing
    THEN <<path_join(input_dir, <<BaseNames[k]>> \o JsonExt)>>
             \o listed_json_files(listing, k + 1)
    ELSE listed_json_files(listing, k + 1)

\* the position of the last occurrence of ch in path, 0 when there is none
last_index(path, ch) ==
    IF \E k \in 1..Len(path) : path[k] = ch
    THEN CHOOSE k \in 1..Len(path) :
             /\ path[k] = ch
             /\ \A j \in (k + 1)..Len(path) : path[j] # ch
    ELSE 0

\* os.path.basename(path)
basename(path) == SubSeq(path, last_index(path, "/") + 1, Len(path))

\* os.path.splitext(name)[0]
splitext_root(name) ==
    IF last_index(name, ".") <= 1 THEN name
    ELSE SubSeq(name, 1, last_index(name, ".") - 1)

generate_output_filename(input_file_path) ==
    path_join(output_dir,
        <<"p", "a", "r", "s", "e", "d", "_">>
            \o splitext_root(basename(input_file_path)) \o JsonExt)

\* process_json.process_openai_json: None (here none) when the file cannot
\* be read, else the fields of the file
process_openai_json(content) ==
    IF content.readable
    THEN [none |-> FALSE, reference |-> content.reference]
    ELSE [none |-> TRUE, reference |-> <<>>]

\* extract_reference_structured as a function of the reference HTML
reference_structured(html) ==
    IF html = <<>> \/ ~has_source_element(html) THEN NoReference
    ELSE classify_links(html, 1, <<>>, <<>>)

EmptyReference ==
    [none |-> FALSE, detailed_references |-> <<>>, domain_summary |-> <<>>]

extract_reference_from_html_or_empty(html) ==
    IF html = <<>> \/ reference_structured(html).none THEN EmptyReference
    ELSE reference_structured(html)

extract_reference_from_html(html) ==
    IF html = <<>> THEN EmptyReference
    ELSE reference_structured(html)

\* what process_single_file returns when it returns None
NoFileSummary ==
    [none |-> TRUE, input_file |-> <<>>, output_file |-> <<>>,
     detailed_references |-> 0, domain_summary |-> 0]

\* process_single_file: the summary it returns and whether it has written
\* the output file.  len(reference_data['detailed_references']) raises a
\* TypeError on None, which the except clause turns into None before step 5.
process_single_file(file_path, content) ==
    IF process_openai_json(content).none THEN NoFileSummary
    ELSE IF extract_reference_from_html(process_openai_json(content).reference).none
    THEN NoFileSummary
    ELSE [none |-> FALSE,
          input_file |-> file_path,
          output_file |-> generate_output_filename(file_path),
          detailed_references |->
              Len(extract_reference_from_html(
                      process_openai_json(content).reference).detailed_references),
          domain_summary |->
              Len(extract_reference_from_html(
                      process_openai_json(content).reference).domain_summary)]

ParseIdle ==
    /\ parse_pc = "idle"
    /\ json_files = <<>>
    /\ file_content = <<>>
    /\ file_futures = <<>>
    /\ written_files = {}
    /\ processed_results = <<>>
    /\ failed_files = <<>>

ParseInit ==
    /\ parse_pc = "called"
    /\ \E listing \in SUBSET (1..MaxFiles) :
           /\ json_files = listed_json_files(listing, 1)
           /\ file_content \in [1..Cardinality(listing) -> FileContents]
    /\ file_futures = <<>>
    /\ written_files = {}
    /\ processed_results = <<>>
    /\ failed_files = <<>>

\* if not json_files: return
NoJsonFiles ==
    /\ parse_pc = "called"
    /\ json_files = <<>>
    /\ parse_pc' = "returned"
    /\ UNCHANGED <<json_files, file_content, file_futures, written_files,
                   processed_results, failed_files, exceptParse>>

\* futures = {executor.submit(process_file_wrapper, file_path): file_path ...}
SubmitFiles ==
    /\ parse_pc = "called"
    /\ json_files # <<>>
    /\ file_futures' =
           [k \in 1..Len(json_files) |-> [state |-> "submitted", result |-> NoFileSummary]]
    /\ parse_pc' = "collecting"
    /\ UNCHANGED <<json_files, file_content, written_files,
                   processed_results, failed_files, exceptParse>>

\* a worker runs process_file_wrapper on one file
WorkerProcessesFile ==
    /\ parse_pc = "collecting"
    /\ \E k \in 1..Len(json_files) :
           /\ file_futures[k].state = "submitted"
           /\ \E result \in {process_single_file(json_files[k], file_content[k])} :
                  /\ file_futures' =
                         [file_futures EXCEPT ![k] = [state |-> "done", result |-> result]]
                  /\ written_files' =
                         IF result.none THEN written_files
                         ELSE written_files \cup {result.output_file}
    /\ UNCHANGED <<parse_pc, json_files, file_content,
                   processed_results, failed_files, exceptParse>>

\* as_completed yields a finished future; if result: processed_results.append
CollectProcessed ==
    /\ parse_pc = "collecting"
    /\ \E k \in 1..Len(json_files) :
           /\ file_futures[k].state = "done"
           /\ ~file_futures[k].result.none
           /\ processed_results' = Append(processed_results, file_futures[k].result)
           /\ file_futures' = [file_futures EXCEPT ![k].state = "collected"]
    /\ UNCHANGED <<parse_pc, json_files, file_content, written_files,
                   failed_files, exceptParse>>

\* else: failed_files.append((original_path, error or "未知错误"))
CollectFailed ==
    /\ parse_pc = "collecting"
    /\ \E k \in 1..Len(json_files) :
           /\ file_futures[k].state = "done"
           /\ file_futures[k].result.none
           /\ failed_files' = Append(failed_files, json_files[k])
           /\ file_futures' = [file_futures EXCEPT ![k].state = "collected"]
    /\ UNCHANGED <<parse_pc, json_files, file_content, written_files,
                   processed_results, exceptParse>>

\* if not processed_results: return
ReturnWithoutIndex ==
    /\ parse_pc = "collecting"
    /\ \A k \in 1..Len(json_files) : file_futures[k].state = "collected"
    /\ processed_results = <<>>
    /\ parse_pc' = "returned"
    /\ UNCHANGED <<json_files, file_content, file_futures, written_files,
                   processed_results, failed_files, exceptParse>>

\* create_index_file(processed_results, output_dir)
ReturnWithIndex ==
    /\ parse_pc = "collecting"
    /\ \A k \in 1..Len(json_files) : file_futures[k].state = "collected"
    /\ processed_results # <<>>
    /\ written_files' =
           written_files \cup {path_join(output_dir,
               <<"p", "r", "o", "c", "e", "s", "s", "i", "n", "g", "_",
                 "i", "n", "d", "e", "x">> \o JsonExt)}
    /\ parse_pc' = "returned"
    /\ UNCHANGED <<json_files, file_content, file_futures,
                   processed_results, failed_files, exceptParse>>

ParseNext ==
    \/ NoJsonFiles
    \/ SubmitFiles
    \/ WorkerProcessesFile
    \/ CollectProcessed
    \/ CollectFailed
    \/ ReturnWithoutIndex
    \/ ReturnWithIndex

(***************************************************************************)
(* Specifications                                                          *)
(***************************************************************************)

InitSplit == SplitInit /\ CacheIdle /\ RetryIdle /\ HarnessIdle /\ VoteIdle /\ AuditIdle /\ MetricsIdle /\ WebIdle /\ GeminiIdle /\ HtmlIdle /\ ReferenceIdle /\ EvaluateIdle /\ BatchIdle /\ ExtractIdle /\ ScrapeIdle /\ TemplateIdle /\ ConvertIdle /\ SharedIdle /\ ScanIdle /\ ParseIdle

SpecSplit == InitSplit /\ [][SplitNext]_vars

InitCache == CacheInit /\ SplitIdle /\ RetryIdle /\ HarnessIdle /\ VoteIdle /\ AuditIdle /\ MetricsIdle /\ WebIdle /\ GeminiIdle /\ HtmlIdle /\ ReferenceIdle /\ EvaluateIdle /\ BatchIdle /\ ExtractIdle /\ ScrapeIdle /\ TemplateIdle /\ ConvertIdle /\ SharedIdle /\ ScanIdle /\ ParseIdle

SpecCache == InitCache /\ [][CacheNext]_vars

InitRetry == RetryInit /\ SplitIdle /\ CacheIdle /\ HarnessIdle /\ VoteIdle /\ AuditIdle /\ MetricsIdle /\ WebIdle /\ GeminiIdle /\ HtmlIdle /\ ReferenceIdle /\ EvaluateIdle /\ BatchIdle /\ ExtractIdle /\ ScrapeIdle /\ TemplateIdle /\ ConvertIdle /\ SharedIdle /\ ScanIdle /\ ParseIdle

SpecRetry == InitRetry /\ [][RetryNext]_vars

InitHarness == HarnessInit /\ SplitIdle /\ CacheIdle /\ RetryIdle /\ VoteIdle /\ AuditIdle /\ MetricsIdle /\ WebIdle /\ GeminiIdle /\ HtmlIdle /\ ReferenceIdle /\ EvaluateIdle /\ BatchIdle /\ ExtractIdle /\ ScrapeIdle /\ TemplateIdle /\ ConvertIdle /\ SharedIdle /\ ScanIdle /\ ParseIdle

SpecHarness == InitHarness /\ [][HarnessNext]_vars

InitVote == VoteInit /\ SplitIdle /\ CacheIdle /\ RetryIdle /\ HarnessIdle /\ AuditIdle /\ MetricsIdle /\ WebIdle /\ GeminiIdle /\ HtmlIdle /\ ReferenceIdle /\ EvaluateIdle /\ BatchIdle /\ ExtractIdle /\ ScrapeIdle /\ TemplateIdle /\ ConvertIdle /\ SharedIdle /\ ScanIdle /\ ParseIdle

SpecVote == InitVote /\ [][VoteNext]_vars

InitAudit == AuditInit /\ SplitIdle /\ CacheIdle /\ RetryIdle /\ HarnessIdle /\ VoteIdle /\ MetricsIdle /\ WebIdle /\ GeminiIdle /\ HtmlIdle /\ ReferenceIdle /\ EvaluateIdle /\ BatchIdle /\ ExtractIdle /\ ScrapeIdle /\ TemplateIdle /\ ConvertIdle /\ SharedIdle /\ ScanIdle /\ ParseIdle

SpecAudit == InitAudit /\ [][AuditNext]_vars

InitMetrics == MetricsInit /\ SplitIdle /\ CacheIdle /\ RetryIdle /\ HarnessIdle /\ VoteIdle /\ AuditIdle /\ WebIdle /\ GeminiIdle /\ HtmlIdle /\ ReferenceIdle /\ EvaluateIdle /\ BatchIdle /\ ExtractIdle /\ ScrapeIdle /\ TemplateIdle /\ ConvertIdle /\ SharedIdle /\ ScanIdle /\ ParseIdle

SpecMetrics == InitMetrics /\ [][MetricsNext]_vars

InitWeb == WebInit /\ SplitIdle /\ CacheIdle /\ RetryIdle /\ HarnessIdle /\ VoteIdle /\ AuditIdle /\ MetricsIdle /\ GeminiIdle /\ HtmlIdle /\ ReferenceIdle /\ EvaluateIdle /\ BatchIdle /\ ExtractIdle /\ ScrapeIdle /\ TemplateIdle /\ ConvertIdle /\ SharedIdle /\ ScanIdle /\ ParseIdle

SpecWeb == InitWeb /\ [][WebNext]_vars

InitGemini == GeminiInit /\ SplitIdle /\ CacheIdle /\ RetryIdle /\ HarnessIdle /\ VoteIdle /\ AuditIdle /\ MetricsIdle /\ WebIdle /\ HtmlIdle /\ ReferenceIdle /\ EvaluateIdle /\ BatchIdle /\ ExtractIdle /\ ScrapeIdle /\ TemplateIdle /\ ConvertIdle /\ SharedIdle /\ ScanIdle /\ ParseIdle

SpecGemini == InitGemini /\ [][GeminiNext]_vars

InitHtml == HtmlInit /\ SplitIdle /\ CacheIdle /\ RetryIdle /\ HarnessIdle /\ VoteIdle /\ AuditIdle /\ MetricsIdle /\ WebIdle /\ GeminiIdle /\ ReferenceIdle /\ EvaluateIdle /\ BatchIdle /\ ExtractIdle /\ ScrapeIdle /\ TemplateIdle /\ ConvertIdle /\ SharedIdle /\ ScanIdle /\ ParseIdle

SpecHtml == InitHtml /\ [][HtmlNext]_vars

InitReference == ReferenceInit /\ SplitIdle /\ CacheIdle /\ RetryIdle /\ HarnessIdle /\ VoteIdle /\ AuditIdle /\ MetricsIdle /\ WebIdle /\ GeminiIdle /\ HtmlIdle /\ EvaluateIdle /\ BatchIdle /\ ExtractIdle /\ ScrapeIdle /\ TemplateIdle /\ ConvertIdle /\ SharedIdle /\ ScanIdle /\ ParseIdle

SpecReference == InitReference /\ [][ReferenceNext]_vars

InitEvaluate == EvaluateInit /\ SplitIdle /\ CacheIdle /\ RetryIdle /\ HarnessIdle /\ VoteIdle /\ AuditIdle /\ MetricsIdle /\ WebIdle /\ GeminiIdle /\ HtmlIdle /\ ReferenceIdle /\ BatchIdle /\ ExtractIdle /\ ScrapeIdle /\ TemplateIdle /\ ConvertIdle /\ SharedIdle /\ ScanIdle /\ ParseIdle

SpecEvaluate == InitEvaluate /\ [][EvaluateNext]_vars

InitBatch == BatchInit /\ SplitIdle /\ CacheIdle /\ RetryIdle /\ HarnessIdle /\ VoteIdle /\ AuditIdle /\ MetricsIdle /\ WebIdle /\ GeminiIdle /\ HtmlIdle /\ ReferenceIdle /\ EvaluateIdle /\ ExtractIdle /\ ScrapeIdle /\ TemplateIdle /\ ConvertIdle /\ SharedIdle /\ ScanIdle /\ ParseIdle

SpecBatch == InitBatch /\ [][BatchNext]_vars

InitExtract == ExtractInit /\ SplitIdle /\ CacheIdle /\ RetryIdle /\ HarnessIdle /\ VoteIdle /\ AuditIdle /\ MetricsIdle /\ WebIdle /\ GeminiIdle /\ HtmlIdle /\ ReferenceIdle /\ EvaluateIdle /\ BatchIdle /\ ScrapeIdle /\ TemplateIdle /\ ConvertIdle /\ SharedIdle /\ ScanIdle /\ ParseIdle

SpecExtract == InitExtract /\ [][ExtractNext]_vars

InitScrape == ScrapeInit /\ SplitIdle /\ CacheIdle /\ RetryIdle /\ HarnessIdle /\ VoteIdle /\ AuditIdle /\ MetricsIdle /\ WebIdle /\ GeminiIdle /\ HtmlIdle /\ ReferenceIdle /\ EvaluateIdle /\ BatchIdle /\ ExtractIdle /\ TemplateIdle /\ ConvertIdle /\ SharedIdle /\ ScanIdle /\ ParseIdle

SpecScrape == InitScrape /\ [][ScrapeNext]_vars

InitTemplate == TemplateInit /\ SplitIdle /\ CacheIdle /\ RetryIdle /\ HarnessIdle /\ VoteIdle /\ AuditIdle /\ MetricsIdle /\ WebIdle /\ GeminiIdle /\ HtmlIdle /\ ReferenceIdle /\ EvaluateIdle /\ BatchIdle /\ ExtractIdle /\ ScrapeIdle /\ ConvertIdle /\ SharedIdle /\ ScanIdle /\ ParseIdle

SpecTemplate == InitTemplate /\ [][TemplateNext]_vars

InitConvert == ConvertInit /\ SplitIdle /\ CacheIdle /\ RetryIdle /\ HarnessIdle /\ VoteIdle /\ AuditIdle /\ MetricsIdle /\ WebIdle /\ GeminiIdle /\ HtmlIdle /\ ReferenceIdle /\ EvaluateIdle /\ BatchIdle /\ ExtractIdle /\ ScrapeIdle /\ TemplateIdle /\ SharedIdle /\ ScanIdle /\ ParseIdle

SpecConvert == InitConvert /\ [][ConvertNext]_vars

InitShared == SharedInit /\ SplitIdle /\ CacheIdle /\ RetryIdle /\ HarnessIdle /\ VoteIdle /\ AuditIdle /\ MetricsIdle /\ WebIdle /\ GeminiIdle /\ HtmlIdle /\ ReferenceIdle /\ EvaluateIdle /\ BatchIdle /\ ExtractIdle /\ ScrapeIdle /\ TemplateIdle /\ ConvertIdle /\ ScanIdle /\ ParseIdle

SpecShared == InitShared /\ [][SharedNext]_vars

InitScan == ScanInit /\ SplitIdle /\ CacheIdle /\ RetryIdle /\ HarnessIdle /\ VoteIdle /\ AuditIdle /\ MetricsIdle /\ WebIdle /\ GeminiIdle /\ HtmlIdle /\ ReferenceIdle /\ EvaluateIdle /\ BatchIdle /\ ExtractIdle /\ ScrapeIdle /\ TemplateIdle /\ ConvertIdle /\ SharedIdle /\ ParseIdle

SpecScan == InitScan /\ [][ScanNext]_vars

\* the thread that runs the loop keeps running
SpecScanFair == InitScan /\ [][ScanNext]_vars /\ WF_vars(ScanNext)

InitParse == ParseInit /\ SplitIdle /\ CacheIdle /\ RetryIdle /\ HarnessIdle /\ VoteIdle /\ AuditIdle /\ MetricsIdle /\ WebIdle /\ GeminiIdle /\ HtmlIdle /\ ReferenceIdle /\ EvaluateIdle /\ BatchIdle /\ ExtractIdle /\ ScrapeIdle /\ TemplateIdle /\ ConvertIdle /\ SharedIdle /\ ScanIdle

SpecParse == InitParse /\ [][ParseNext]_vars

(***************************************************************************)
(* Properties                                                              *)
(***************************************************************************)

\* C1: for every text and every max_size, split_text_by_headers returns
\* normally and its blocks joined by newlines are the text again.
C1_ReconstructsEveryText ==
    split_pc = "done" =>
        /\ split_result.status = "returned"
        /\ JoinLines(split_result.blocks) = text

TaskSet == {tasks[k] : k \in 1..Len(tasks)}

\* the pairs of rows at or after start_idx with a prompt and a constructed model
SelectedPairs ==
    {p \in Pairs : row_selected(p[1], start_idx, empty_prompts) /\ p[2] \in available_models}

\* the resume rule: no task for a pair of the existing file, a task for
\* every other selected pair
ResumeRule ==
    /\ TaskSet \cap FilePairs(existing_file) = {}
    /\ SelectedPairs \ FilePairs(existing_file) \subseteq TaskSet

C3_OneRecordPerTask ==
    harness_pc = "done" =>
        \A k \in 1..Len(tasks) : Len(output_file[tasks[k]]) = 1

\* u up to its first "?" or "#"
BeforeQueryOrFragment(u) == SubSeq(u, 1, FindAnyFrom(u, {"?", "#"}, 1) - 1)

\* u and v differ at most in query string and fragment
SameUpToQueryOrFragment(u, v) == BeforeQueryOrFragment(u) = BeforeQueryOrFragment(v)

HasNormalized(cache, n) == \E k \in 1..Len(cache) : cache[k].normalized_url = n

\* C4: two calls in sequence for the same URL return the same id; a call
\* adds exactly one row when the URL's normalized form was absent and none
\* otherwise, in particular none for a URL that differs from an earlier
\* one only in query string or fragment, which gets the earlier id.
C4_GetOrCreateIdempotent ==
    /\ cache_last.called =>
          /\ Len(url_cache) - Len(cache_last.before)
               = (IF HasNormalized(cache_last.before, normalize_url(cache_last.url))
                  THEN 0 ELSE 1)
          /\ \A k \in 1..Len(cache_last.before) :
                SameUpToQueryOrFragment(cache_last.before[k].url, cache_last.url) =>
                    /\ cache_last.id = cache_last.before[k].random_id
                    /\ url_cache = cache_last.before
    /\ (/\ cache_prev.called
        /\ cache_last.called
        /\ SameUpToQueryOrFragment(cache_prev.url, cache_last.url)) =>
          /\ cache_last.id = cache_prev.id
          /\ url_cache = cache_last.before

\* a first call that added a row, then a call for the same URL with
\* another query string that added none
C4_Witness ==
    /\ cache_prev.called
    /\ cache_last.called
    /\ url_cache[Len(url_cache)].url = cache_prev.url
    /\ cache_prev.url # cache_last.url
    /\ SameUpToQueryOrFragment(cache_prev.url, cache_last.url)
    /\ cache_last.id = cache_prev.id
    /\ url_cache = cache_last.before

\* C5: from an empty table, the table holds at most one row per
\* normalized_url and no random_id twice.
C5_OneRowPerNormalizedUrl ==
    \A j, k \in 1..Len(url_cache) :
        j # k =>
            /\ url_cache[j].normalized_url # url_cache[k].normalized_url
            /\ url_cache[j].random_id # url_cache[k].random_id

\* a full table after a call that found its row
C5_Witness ==
    /\ Len(url_cache) = MaxRows
    /\ cache_last.called
    /\ url_cache = cache_last.before
    /\ \E k \in 1..Len(url_cache) :
          /\ url_cache[k].normalized_url = normalize_url(cache_last.url)
          /\ url_cache[k].url # cache_last.url

ContainsAny(s, keywords) == \E kw \in keywords : Contains(s, kw)

\* the votes for statement id whose decision counts as true, and as false
TrueVotesFor(id) ==
    Cardinality({j \in 1..Len(verification_results) :
                    verification_results[j].ID = id
                    /\ as_bool(verification_results[j].decision)})

FalseVotesFor(id) ==
    Cardinality({j \in 1..Len(verification_results) :
                    verification_results[j].ID = id
                    /\ ~as_bool(verification_results[j].decision)})

\* C6: every statement with votes has one final record; with t true and f
\* false votes its final_decision is correct iff t > f, incorrect iff f > t
\* and tie iff t = f, and its confidence is max(t, f)/(t + f) when t # f
\* and 1/2 on a tie.
C6_MajorityVote ==
    vote_pc = "done" =>
        /\ \A j \in 1..Len(verification_results) :
               Cardinality({i \in 1..Len(final_results) :
                               final_results[i].ID = verification_results[j].ID}) = 1
        /\ \A i \in 1..Len(final_results) :
               LET r == final_results[i]
                   t == TrueVotesFor(r.ID)
                   f == FalseVotesFor(r.ID)
               IN  /\ r.final_decision = Correct <=> t > f
                   /\ r.final_decision = Incorrect <=> f > t
                   /\ r.final_decision = Tie <=> t = f
                   /\ r.confidence.den > 0
                   /\ t > f => r.confidence.num * (t + f) = t * r.confidence.den
                   /\ f > t => r.confidence.num * (t + f) = f * r.confidence.den
                   /\ t = f => r.confidence.num * 2 = r.confidence.den

\* six votes, four of them true: correct with confidence 4/6
C6_Witness ==
    /\ vote_pc = "done"
    /\ Len(verification_results) = 6
    /\ \E i \in 1..Len(final_results) :
           /\ TrueVotesFor(final_results[i].ID) = 4
           /\ FalseVotesFor(final_results[i].ID) = 2
           /\ final_results[i].final_decision = Correct
           /\ final_results[i].confidence = [num |-> 4, den |-> 6]

\* C7: a step whose output file exists when the run reaches it does not
\* invoke its function and leaves the file as it is; a run that comes to
\* the scraping step invokes scrape_all whichever output files exist, so
\* every run that ends normally has invoked it.
C7_AuditResume ==
    /\ \A f \in StepFiles :
           files_at_start[f].exists =>
               /\ StepFunction[f] \notin invoked
               /\ files[f] = files_at_start[f]
    /\ (reached \cap {"match", "verify", "done"} # {}) => "scrape_all" \in invoked

\* a second run that finds the five files, invokes none of their functions
\* and scrapes
C7_Witness ==
    /\ audit_pc = "done"
    /\ audit_runs = 2
    /\ \A f \in StepFiles : files_at_start[f].exists
    /\ reached = {"citations", "no_citations", "web_verify", "scrape",
                  "match", "verify", "done"}
    /\ invoked = {"scrape_all"}

InMissingFiles(f) ==
    \E i \in 1..Len(metrics.missing_files) : metrics.missing_files[i] = f

C9_RateLimitClassification ==
    last_error # <<>> =>
        /\ ContainsAny(ToLower(last_error), MustClassifyKeywords) => last_is_rate_limit
        /\ ~ContainsAny(ToLower(last_error), DocumentedKeywords) => ~last_is_rate_limit

\* C10: infer_single_with_retry returns a failure only after an error that
\* is not rate-limit with max_retries retries already made; a rate-limit
\* error is always retried; when every invocation raised another error,
\* the failure comes after max_retries + 1 invocations with retry_count =
\* max_retries.
C10_RetryPolicy ==
    /\ (retry_result.returned /\ ~retry_result.success) =>
          /\ ~last_is_rate_limit
          /\ ~retry_result.is_rate_limit
          /\ retry_attempt >= max_retries
          /\ retry_result.retry_count = retry_attempt
          /\ (only_other_errors =>
                 /\ invocations = max_retries + 1
                 /\ retry_result.retry_count = max_retries)
    /\ (retry_pc = "invoke" /\ only_other_errors) => retry_attempt <= max_retries
    /\ retry_attempt = invocations - (IF retry_result.returned THEN 1 ELSE 0)

\* a failure after rate-limit retries beyond max_retries, and then another error
C10_Witness ==
    /\ retry_result.returned
    /\ ~retry_result.success
    /\ ~only_other_errors
    /\ max_retries > 0
    /\ retry_attempt > max_retries

\* C11: generate never raises to its caller on a response with status 429,
\* whatever the text of the response.
C11_Status429NeverRaises ==
    web_pc = "raised" => web_outcome.status_code # 429

\* C23: the wait before the n-th consecutive rate-limit retry of a call is
\* min(1.0 * 2^(n-1), 300) seconds, for every n >= 1.
C23_RateLimitWaitDoubles ==
    /\ web_pc = "post"
    /\ web_rate_limit_retries >= 1
    /\ web_error_retries = 0
    /\ web_is_rate_limit(web_outcome)
    => web_wait_time = Min(base_wait_time * (2 ^ (web_rate_limit_retries - 1)), MaxWaitTime)

\* C29: a call raises on a non-rate-limit error only after 3 non-rate-limit
\* retries have been used, however many rate-limit retries preceded it.
C29_ErrorBudgetIndependent ==
    web_pc = "raised" => web_error_retries = web_max_retries

\* the matched superscripts lie at distinct offsets and do not overlap
NonOverlappingMatches ==
    \A i, j \in 1..Len(superscript_list) :
        /\ i # j
        /\ superscript_list[i].matched_index >= 0
        /\ superscript_list[j].matched_index >= 0
        => \/ superscript_list[i].matched_index + Len(superscript_list[i].sub_index)
                  <= superscript_list[j].matched_index
           \/ superscript_list[j].matched_index + Len(superscript_list[j].sub_index)
                  <= superscript_list[i].matched_index

\* the matched superscripts that are not yet processed
PendingMatched ==
    {superscript_list[substitution_order[k]] :
        k \in {m \in (substituted + 1)..Len(substitution_order) :
                  superscript_list[substitution_order[m]].matched_index >= 0}}

\* C12: when the matched offsets are distinct and do not overlap, the text
\* before the last replacement is the text before any substitution, and every
\* matched superscript still to be processed lies wholly in that text, with
\* its marker at its recorded offset.
C12_DescendingKeepsEarlierOffsets ==
    gemini_pc = "substitute" /\ NonOverlappingMatches
    => /\ SubSeq(trans_md_text, 1, replaced_from)
              = SubSeq(gemini_md_text, 1, replaced_from)
       /\ \A item \in PendingMatched :
              /\ item.matched_index + Len(item.sub_index) <= replaced_from
              /\ marker_found(trans_md_text, item)

\* a link longer than its marker has replaced a marker, and a superscript
\* matched at a smaller offset is still to be processed
C12_Witness ==
    /\ gemini_pc = "substitute"
    /\ NonOverlappingMatches
    /\ formatted_url # <<>>
    /\ replaced_from < Len(gemini_md_text)
    /\ Len(trans_md_text) > Len(gemini_md_text)
    /\ PendingMatched # {}

\* C17 as stated: no two superscripts are assigned the same matched_index
\* that is not -1.
C17_NoSharedMatchedIndex ==
    \A i, j \in 1..scanned :
        i < j /\ superscript_list[i].matched_index >= 0
        => superscript_list[i].matched_index # superscript_list[j].matched_index

\* C17: the search start is the end of the last superscript's match when that
\* match is exact and 0 when its attempt ended without exact match; a
\* superscript scanned right after an exact match is assigned no position
\* before the end of that match.
C17_StartAdvancesPastExactMatch ==
    /\ scanned > 0 /\ gemini_pc = "match"
       => search_start =
              IF superscript_list[scanned].exact
              THEN superscript_list[scanned].matched_index
                       + Len(superscript_list[scanned].sub_index)
              ELSE 0
    /\ \A k \in 1..(scanned - 1) :
           superscript_list[k].exact /\ superscript_list[k + 1].matched_index >= 0
           => superscript_list[k + 1].matched_index
                  >= superscript_list[k].matched_index
                         + Len(superscript_list[k].sub_index)

\* two exact matches in a row, then an attempt that ends without match
C17_Witness ==
    /\ gemini_pc = "match"
    /\ scanned = 3
    /\ superscript_list[1].exact
    /\ superscript_list[2].exact
    /\ superscript_list[2].matched_index > superscript_list[1].matched_index
    /\ ~superscript_list[3].exact
    /\ search_start = 0


\* the sections of the HTML text: from each heading tag to the next one
HtmlSections ==
    {section_content(html_content, header_starts(html_content, 0), i) :
        i \in 1..Len(header_starts(html_content, 0))}

\* the chunk holds more than one heading tag
SeveralSections(chunk) == Len(header_starts(chunk, 0)) > 1

\* C13: of a text longer than max_chunk_size that has heading tags, a chunk
\* longer than max_chunk_size is one section or the prefix before the first
\* heading, a chunk of several sections is at most max_chunk_size long, and
\* every chunk but the first starts with a heading tag.
C13_ChunkBound ==
    html_pc = "split"
    => \A k \in 1..Len(html_chunks) :
          /\ Len(html_chunks[k]) > max_chunk_size
             => \/ html_chunks[k] \in HtmlSections
                \/ html_chunks[k] =
                       prefix_content(html_content, header_starts(html_content, 0))
          /\ SeveralSections(html_chunks[k])
             => Len(html_chunks[k]) <= max_chunk_size
          /\ k > 1 => header_match_end(html_chunks[k], 0) # -1

\* a split with a chunk of two sections, followed by a section that is too
\* long by itself
C13_Witness ==
    /\ html_pc = "split"
    /\ Len(html_chunks) >= 2
    /\ \E k \in 1..Len(html_chunks) : SeveralSections(html_chunks[k])
    /\ \E k \in 2..Len(html_chunks) : Len(html_chunks[k]) > max_chunk_size


\* the node with the first occurrence of the marker text, 0 without marker
FirstMarkerNode ==
    IF has_source_element(reference_html)
    THEN CHOOSE k \in 1..Len(reference_html) :
             /\ has_source_element(SubSeq(reference_html, 1, k))
             /\ ~has_source_element(SubSeq(reference_html, 1, k - 1))
    ELSE 0

\* the urls of the links among the nodes, in document order
RECURSIVE LinkUrls(_)
LinkUrls(nodes) ==
    IF nodes = <<>> THEN <<>>
    ELSE IF Head(nodes).tag = "a"
    THEN <<Head(nodes).href>> \o LinkUrls(Tail(nodes))
    ELSE LinkUrls(Tail(nodes))

EntryUrls(entries) == [k \in 1..Len(entries) |-> entries[k].url]

\* C14: detailed_references are the links before the first occurrence of the
\* marker text and domain_summary the links after it, in document order;
\* without marker text there is no result.
C14_SplitAtFirstMarker ==
    reference_pc = "returned"
    => IF FirstMarkerNode = 0
       THEN reference_result.none
       ELSE /\ ~reference_result.none
            /\ EntryUrls(reference_result.detailed_references)
                   = LinkUrls(SubSeq(reference_html, 1, FirstMarkerNode - 1))
            /\ EntryUrls(reference_result.domain_summary)
                   = LinkUrls(SubSeq(reference_html, FirstMarkerNode + 1,
                                     Len(reference_html)))


\* the quotients a and b are the same number
SameRate(a, b) == a.num * b.den = b.num * a.den

\* the normalized titles of the predicted academic papers and of the ground
\* truth, as sets
PredictedSet ==
    {t \in {normalize_title(predicted_papers[k].title) :
               k \in {m \in 1..Len(predicted_papers) :
                         predicted_papers[m].is_academic_paper}} : t # <<>>}

GroundTruthSet ==
    {t \in {normalize_title(ground_truth_papers[k].title) :
               k \in 1..Len(ground_truth_papers)} : t # <<>>}

\* C15: precision is |I| / |P|, recall is |I| / |G| and f1 is
\* 2 * precision * recall / (precision + recall), each 0 when its denominator
\* is 0; the intersection count exceeds neither of the other counts; the
\* titles a b, c d against a b, e f give 1/2, 1/2 and 1/2.
C15_PrecisionRecallF1 ==
    evaluate_pc = "returned"
    => LET P == PredictedSet
           G == GroundTruthSet
           I == P \cap G
           i == Cardinality(I)
           p == Cardinality(P)
           g == Cardinality(G)
       IN  /\ evaluation.predicted_count = p
           /\ evaluation.ground_truth_count = g
           /\ evaluation.intersection_count = i
           /\ evaluation.precision.den > 0
           /\ evaluation.recall.den > 0
           /\ evaluation.f1_score.den > 0
           /\ IF p = 0 THEN evaluation.precision.num = 0
              ELSE SameRate(evaluation.precision, [num |-> i, den |-> p])
           /\ IF g = 0 THEN evaluation.recall.num = 0
              ELSE SameRate(evaluation.recall, [num |-> i, den |-> g])
           \* precision + recall = 0 exactly when i = 0; else
           \* 2PR / (P + R) = 2i / (p + g)
           /\ IF i = 0 THEN evaluation.f1_score.num = 0
              ELSE SameRate(evaluation.f1_score, [num |-> 2 * i, den |-> p + g])
           /\ i <= p /\ i <= g
           /\ P = {<<"a", " ", "b">>, <<"c", " ", "d">>} /\ G = {<<"a", " ", "b">>, <<"e", " ", "f">>}
              => /\ SameRate(evaluation.precision, [num |-> 1, den |-> 2])
                 /\ SameRate(evaluation.recall, [num |-> 1, den |-> 2])
                 /\ SameRate(evaluation.f1_score, [num |-> 1, den |-> 2])

\* the evaluation of the titles a b, c d against a b, e f, one of them
\* normalized from A  b.
C15_Witness ==
    /\ evaluate_pc = "returned"
    /\ PredictedSet = {<<"a", " ", "b">>, <<"c", " ", "d">>}
    /\ GroundTruthSet = {<<"a", " ", "b">>, <<"e", " ", "f">>}
    /\ \E k \in 1..Len(predicted_papers) : predicted_papers[k].title = <<"A", " ", " ", "b", ".">>
    /\ evaluation.intersection_count = 1


\* the sum over the reports of the batch of the rows, or of another count, of
\* a file
RECURSIVE FileSum(_, _, _)
FileSum(dirs, f, count) ==
    IF dirs = <<>> THEN 0
    ELSE Head(dirs)[f][count] + FileSum(Tail(dirs), f, count)

\* the quotient is n / d, or 0 when d is 0
IsRate(rate, n, d) ==
    /\ rate.den > 0
    /\ IF d = 0 THEN rate.num = 0 ELSE rate.num * d = n * rate.den

\* C16: every overall rate is the sum of the numerators of the per-report
\* rate over the sum of its denominators: matched rows over citations,
\* aligned rows over rows of final.csv, correct statements over verified
\* statements; for one report it is the report's rate.
C16_OverallRates ==
    batch_pc = "returned"
    => /\ IsRate(summary_metrics.overall_match_rate,
                 FileSum(report_dirs, "matched.csv", "rows"),
                 FileSum(report_dirs, "citations.csv", "rows"))
       /\ IsRate(summary_metrics.overall_alignment_rate,
                 FileSum(report_dirs, "final.csv", "aligned"),
                 FileSum(report_dirs, "final.csv", "rows"))
       /\ IsRate(summary_metrics.overall_no_citations_accuracy,
                 FileSum(report_dirs, "no_citations_web_final.csv", "correct"),
                 FileSum(report_dirs, "no_citations_web_final.csv", "rows"))
       /\ Len(all_metrics) = 1
          => /\ SameRate(summary_metrics.overall_match_rate,
                         all_metrics[1].match_rate)
             /\ SameRate(summary_metrics.overall_alignment_rate,
                         all_metrics[1].alignment_rate)
             /\ SameRate(summary_metrics.overall_no_citations_accuracy,
                         all_metrics[1].no_citations_accuracy)


\* C18: the saved table has no statement of a block whose processing ended
\* with an error other than the rate limit.
C18_FailedChunkContributesNothing ==
    extract_pc = "saved"
    => \A b \in dropped_blocks : \A k \in 1..Len(out_csv) :
           out_csv[k].statement.block # b


\* C19: scrape_all reports a URL as failed only after the generic loader
\* has been called for it.
C19_BothPathsBeforeFailure ==
    \A k \in 1..Len(scrape_log) :
        scrape_log[k].op = "scrape_all" /\ scrape_log[k].status = "failed"
        => scrape_log[k].langchain_called

\* the step leaves every file of raw_texts that exists as it is
FilesKept ==
    \A id \in IdSpace :
        raw_texts_dir[id] # NoFile => raw_texts_dir'[id] = raw_texts_dir[id]

\* the step leaves every row of the table as it is
RowsKept(table, table_after) ==
    /\ Len(table_after) >= Len(table)
    /\ \A k \in 1..Len(table) : table_after[k] = table[k]

\* C20 as stated: no step of scrape_all or of fetch_url_contents, with or
\* without use_cache, changes a file of raw_texts that exists, and no row of
\* the URL cache is changed or removed.
C20_CachesAppendOnly ==
    [][/\ FilesKept
       /\ RowsKept(url_cache_file, url_cache_file')
       /\ scrape_pc = "fetch" /\ scrape_pc' = "fetch"
          => RowsKept(fetch_url_cache, fetch_url_cache')]_vars

\* C20: a file of raw_texts that exists is changed only by
\* fetch_url_contents without use_cache, and no row of the URL cache is
\* changed or removed.
C20_AppendOnlyUnlessCacheDisabled ==
    [][/\ FilesKept \/ (scrape_pc = "fetch" /\ ~use_cache)
       /\ RowsKept(url_cache_file, url_cache_file')
       /\ scrape_pc = "fetch" /\ scrape_pc' = "fetch"
          => RowsKept(fetch_url_cache, fetch_url_cache')]_vars

\* a second call meets the files and the rows of the first one:
\* fetch_url_contents with use_cache has read a file of an earlier call
C20_Witness ==
    /\ operations = 1
    /\ scrape_pc = "fetch"
    /\ use_cache
    /\ url_cache_file # <<>>
    /\ \E k \in 1..Len(scrape_log) : scrape_log[k].from_cache
    /\ Len(fetch_url_cache) > Len(url_cache_file)

\* template.format raised for the row that was prepared
FormatFailed ==
    IF DOMAIN column_mapping # {}
    THEN ~str_format(template, 1, template_values(column_mapping, csv_row)).ok
    ELSE ~str_format(template, 1, [k \in {PromptKeyword} |-> original_prompt]).ok

\* C21: when template formatting fails for a row, the prompt sent to the
\* models is the row's unmodified original prompt, in column-mapping mode
\* and in legacy {prompt} mode.
C21_FailureFallsBackToOriginalPrompt ==
    /\ template_pc = "prepared"
    /\ template # <<>>
    /\ FormatFailed
    => prompt = original_prompt

\* what the code does when template formatting fails: the prompt is the
\* original prompt in legacy mode and the unformatted template text in
\* column-mapping mode
FailureFallbackOfEachMode ==
    /\ template_pc = "prepared"
    /\ template # <<>>
    /\ FormatFailed
    => prompt = (IF DOMAIN column_mapping # {} THEN template ELSE original_prompt)

\* the column-mapping mode has sent the unformatted template
MappingFallbackReached ==
    /\ template_pc = "prepared"
    /\ template # <<>>
    /\ FormatFailed
    /\ DOMAIN column_mapping # {}
    /\ prompt = template
    /\ prompt # original_prompt

\* what the conversion of chunk i produced: the cleaned reply, or the
\* unconverted chunk when the conversion failed
ChunkOutput(i) ==
    IF chunk_futures[i].state = "collected"
    THEN chunk_futures[i].result ELSE convert_chunks[i]

\* the conversion of chunk i failed (the chunk came back unconverted)
ConversionFailed(i) ==
    \/ chunk_futures[i].state = "collected_raised"
    \/ chunk_futures[i].state = "collected" /\ chunk_futures[i].result = convert_chunks[i]

\* C22: the returned text joins the per-chunk outputs in the original chunk
\* order whatever the completion order, and a chunk whose conversion failed
\* stands at its position with its unconverted content.
C22_JoinedInChunkOrder ==
    convert_pc = "returned" =>
        /\ markdown_content = joined_markdown([i \in 1..Len(convert_chunks) |-> ChunkOutput(i)])
        /\ \A i \in 1..Len(convert_chunks) :
               chunk_futures[i].state = "collected_raised" => markdown_chunks[i] = convert_chunks[i]

\* three chunks, the middle one failed, and the text keeps it in the middle
C22_Witness ==
    /\ convert_pc = "returned"
    /\ Len(convert_chunks) = 3
    /\ chunk_futures[2].state = "collected_raised"
    /\ chunk_futures[1].state = "collected"
    /\ chunk_futures[3].state = "collected"
    /\ convert_chunks[2] = <<" ", "b">>
    /\ markdown_content = <<"x", "\n", "\n", "b", "\n", "\n", "y", "\n", "\n", "y">>

\* C24: for a text without level-1 to level-3 heading lines, every chunk
\* split_text_by_headers returns has at most max_size characters, also when
\* a single line is longer than max_size.
C24_NoHeaderChunksBounded ==
    /\ split_pc = "done"
    /\ HeaderIndices(SplitLines(text)) = <<>>
    /\ split_result.status = "returned"
    => \A k \in 1..Len(split_result.blocks) : Len(split_result.blocks[k]) <= max_size

AppendedBy(p) ==
    {[normalized_url |-> run_calls[p][k].normalized_url,
      random_id |-> run_calls[p][k].random_id] :
        k \in {j \in 1..Len(run_calls[p]) : run_calls[p][j].created}}

\* the (normalized_url, random_id) pairs of the persisted table
PersistedPairs ==
    {[normalized_url |-> shared_cache_file[k].normalized_url,
      random_id |-> shared_cache_file[k].random_id] :
        k \in 1..Len(shared_cache_file)}

\* C26: nothing protects the cache file against concurrent executions:
\* every save replaces the file by the table of the saving execution,
\* whatever another execution has saved since that table was loaded, so
\* that a lost update is reachable.
C26_LastSaveReplacesFile ==
    save_order # <<>> =>
        shared_cache_file = run_cache[save_order[Len(save_order)]]

\* both executions have saved, a row appended by one of them is missing
\* from the persisted table, and the executions handed two different ids
\* to the same normalized URL
C26_Witness ==
    /\ \A p \in Executions : run_pc[p] = "saved"
    /\ \E p \in Executions : \E row \in AppendedBy(p) : row \notin PersistedPairs
    /\ \E a \in AppendedBy(1), b \in AppendedBy(2) :
           /\ a.normalized_url = b.normalized_url
           /\ a.random_id # b.random_id

\* C27: replace_superscripts_in_markdown terminates for every markdown text
\* and every list of superscripts, including a superscript whose marker is
\* the empty string and whose context does not match.
C27_ScanTerminates == <>(scan_pc = "returned")

\* the step-wise loop gives the matched_index the whole scan of an item
\* with a non-empty marker gives
StepwiseScanAgrees ==
    /\ scan_pc = "returned"
    /\ Len(scan_data) = 1
    /\ scan_data[1].sub_index # <<>>
    => matched_indices[1] = scan_item(scan_md_text, scan_data[1], 0, -1).matched_index

\* C28: when a run of process_single_json finishes, every citation row
\* whose raw-text file exists has been submitted to the sentence matcher
\* in that run or an earlier one, also when its scrape failed in an
\* earlier run and succeeded in this one.
C28_ScrapedCitationsAreMatched ==
    audit_pc = "done" => (df_citations \cap raw_texts) \subseteq submitted

(***************************************************************************)
(* process_all_files: a file whose reference extraction yields nothing     *)
(***************************************************************************)

\* the reference field of file k is non-empty and extract_reference_structured
\* returns no result for it
ReferenceWithoutResult(k) ==
    /\ file_content[k].readable
    /\ file_content[k].reference # <<>>
    /\ reference_structured(file_content[k].reference).none

\* how often the file path occurs in processed_results and in failed_files
TimesProcessed(path) ==
    Cardinality({j \in 1..Len(processed_results) : processed_results[j].input_file = path})

TimesFailed(path) ==
    Cardinality({j \in 1..Len(failed_files) : failed_files[j] = path})

\* C30: when process_all_files has returned, a file with a non-empty
\* reference field for which the reference extraction returned no result has
\* no parsed_<basename>.json and is among the failed files, a readable file
\* whose reference field is empty or yields a result has its output file and
\* is among the processed ones, and every input file is counted exactly
\* once, as processed or as failed.
C30_NoReferenceResultFailsTheFile ==
    parse_pc = "returned" =>
        \A k \in 1..Len(json_files) :
            /\ TimesProcessed(json_files[k]) + TimesFailed(json_files[k]) = 1
            /\ ReferenceWithoutResult(k) =>
                   /\ generate_output_filename(json_files[k]) \notin written_files
                   /\ TimesFailed(json_files[k]) = 1
            /\ (file_content[k].readable /\ ~ReferenceWithoutResult(k)) =>
                   /\ generate_output_filename(json_files[k]) \in written_files
                   /\ TimesProcessed(json_files[k]) = 1

C30_Witness ==
    /\ parse_pc = "returned"
    /\ \E k, j \in 1..Len(json_files) :
           /\ ReferenceWithoutResult(k)
           /\ TimesFailed(json_files[k]) = 1
           /\ file_content[j].reference # <<>>
           /\ TimesProcessed(json_files[j]) = 1

====
